---- MODULE Spec2Model ----
(***************************************************************************)
(* mcp-cli: the connection and invocation layer (src/src/client.ts), the   *)
(* configuration helpers it reads (src/src/config.ts) and the commands     *)
(* that drive it (src/src/commands/*.ts).                                  *)
(*                                                                         *)
(* Strings whose content the code inspects (error messages, server names)  *)
(* are sequences of one-character strings; Math.random() is a rational     *)
(* <<num, den>> in [0, 1).                                                 *)
(***************************************************************************)
EXTENDS Integers, Sequences, FiniteSets, TLC

VARIABLES
    call,       \* pure-function checks: the application under check
    ret,        \* pure-function checks: its result
    MCP_DEBUG,  \* process.env.MCP_DEBUG: <<value>>, or <<>> for undefined
    processEnv, \* process.env: name -> <<value>>, or <<>> for undefined
    mcpServers, \* config.mcpServers as written in the file: <<[name, descriptor], ...>>
    wr,         \* the frame of the withRetry call in progress
    cl,         \* what client.ts has built: clients, transports, the session
    caller      \* the continuation of whoever called into client.ts

pureVars == <<call, ret>>
envVars == <<MCP_DEBUG, processEnv, mcpServers>>
vars == <<call, ret, MCP_DEBUG, processEnv, mcpServers, wr, cl, caller>>

(***************************************************************************)
(* Bounds of the model                                                     *)
(***************************************************************************)
MaxRetriesBound == 2    \* policies with maxRetries in 0..MaxRetriesBound
MaxAttemptIdx == 5      \* calculateDelay is applied to attempt 0..MaxAttemptIdx
JitterSteps == 8        \* Math.random() draws k/JitterSteps in the delay check
RetryJitterSteps == 2   \* Math.random() draws inside a withRetry call
MaxCalls == 2           \* withRetry calls one direct caller makes
MaxOps == 3             \* operations a caller of client.ts issues
MaxServers == 3         \* servers in the configuration file

(***************************************************************************)
(* Strings                                                                 *)
(***************************************************************************)
UpperCaseLetters == <<"A","B","C","D","E","F","G","H","I","J","K","L","M","N","O","P","Q","R","S","T","U","V","W","X","Y","Z">>
LowerCaseLetters == <<"a","b","c","d","e","f","g","h","i","j","k","l","m","n","o","p","q","r","s","t","u","v","w","x","y","z">>

toLowerCaseChar(c) ==
    IF \E i \in 1..Len(UpperCaseLetters) : UpperCaseLetters[i] = c
    THEN LowerCaseLetters[CHOOSE i \in 1..Len(UpperCaseLetters) : UpperCaseLetters[i] = c]
    ELSE c

toUpperCaseChar(c) ==
    IF \E i \in 1..Len(LowerCaseLetters) : LowerCaseLetters[i] = c
    THEN UpperCaseLetters[CHOOSE i \in 1..Len(LowerCaseLetters) : LowerCaseLetters[i] = c]
    ELSE c

UpperCased(s) == [i \in 1..Len(s) |-> toUpperCaseChar(s[i])]
Capitalised(s) == [i \in 1..Len(s) |-> IF i = 1 THEN toUpperCaseChar(s[i]) ELSE s[i]]

\* String.prototype.toLowerCase
toLowerCase(s) == [i \in 1..Len(s) |-> toLowerCaseChar(s[i])]

\* String.prototype.includes
includes(s, sub) ==
    \E i \in 0..(Len(s) - Len(sub)) : SubSeq(s, i + 1, i + Len(sub)) = sub

(***************************************************************************)
(* isTransientError (client.ts 52-74)                                      *)
(***************************************************************************)
\* Lines 56-71: the substrings the lowered message is searched for.
Pattern ==
    [ econnrefused |-> <<"e","c","o","n","n","r","e","f","u","s","e","d">>,
      econnreset |-> <<"e","c","o","n","n","r","e","s","e","t">>,
      etimedout |-> <<"e","t","i","m","e","d","o","u","t">>,
      enotfound |-> <<"e","n","o","t","f","o","u","n","d">>,
      epipe |-> <<"e","p","i","p","e">>,
      network |-> <<"n","e","t","w","o","r","k">>,
      s502 |-> <<"5","0","2">>,
      s503 |-> <<"5","0","3">>,
      s504 |-> <<"5","0","4">>,
      s429 |-> <<"4","2","9">>,
      connection |-> <<"c","o","n","n","e","c","t","i","o","n">>,
      timeout |-> <<"t","i","m","e","o","u","t">> ]

\* The same chain with the 429 test dropped.
isTransientError_no429(error) ==
    LET message == toLowerCase(error.message) IN
    IF includes(message, Pattern.econnrefused) THEN TRUE
    ELSE IF includes(message, Pattern.econnreset) THEN TRUE
    ELSE IF includes(message, Pattern.etimedout) THEN TRUE
    ELSE IF includes(message, Pattern.enotfound) THEN TRUE
    ELSE IF includes(message, Pattern.epipe) THEN TRUE
    ELSE IF includes(message, Pattern.network) THEN TRUE
    ELSE IF includes(message, Pattern.s502) THEN TRUE
    ELSE IF includes(message, Pattern.s503) THEN TRUE
    ELSE IF includes(message, Pattern.s504) THEN TRUE
    ELSE IF includes(message, Pattern.connection) THEN TRUE
    ELSE IF includes(message, Pattern.timeout) THEN TRUE
    ELSE FALSE

\* The chain with 'connect' in the place of 'connection'.
isTransientError_connect(error) ==
    LET message == toLowerCase(error.message) IN
    IF includes(message, Pattern.econnrefused) THEN TRUE
    ELSE IF includes(message, Pattern.econnreset) THEN TRUE
    ELSE IF includes(message, Pattern.etimedout) THEN TRUE
    ELSE IF includes(message, Pattern.enotfound) THEN TRUE
    ELSE IF includes(message, Pattern.epipe) THEN TRUE
    ELSE IF includes(message, Pattern.network) THEN TRUE
    ELSE IF includes(message, Pattern.s502) THEN TRUE
    ELSE IF includes(message, Pattern.s503) THEN TRUE
    ELSE IF includes(message, Pattern.s504) THEN TRUE
    ELSE IF includes(message, Pattern.s429) THEN TRUE
    ELSE IF includes(message, SubSeq(Pattern.connection, 1, 7)) THEN TRUE
    ELSE IF includes(message, Pattern.timeout) THEN TRUE
    ELSE FALSE

isTransientError(error) ==
    LET message == toLowerCase(error.message) IN
    IF includes(message, Pattern.econnrefused) THEN TRUE
    ELSE IF includes(message, Pattern.econnreset) THEN TRUE
    ELSE IF includes(message, Pattern.etimedout) THEN TRUE
    ELSE IF includes(message, Pattern.enotfound) THEN TRUE
    ELSE IF includes(message, Pattern.epipe) THEN TRUE
    ELSE IF includes(message, Pattern.network) THEN TRUE
    ELSE IF includes(message, Pattern.s502) THEN TRUE
    ELSE IF includes(message, Pattern.s503) THEN TRUE
    ELSE IF includes(message, Pattern.s504) THEN TRUE
    ELSE IF includes(message, Pattern.s429) THEN TRUE
    ELSE IF includes(message, Pattern.connection) THEN TRUE
    ELSE IF includes(message, Pattern.timeout) THEN TRUE
    ELSE FALSE

(***************************************************************************)
(* Retry policy and calculateDelay (client.ts 37-47, 79-85)                *)
(***************************************************************************)
DEFAULT_RETRY_CONFIG == [maxRetries |-> 3, baseDelayMs |-> 1000, maxDelayMs |-> 10000]

\* RetryConfig values handed to withRetry and calculateDelay: the default and
\* small ones (delays of a few milliseconds).
Policies ==
    {DEFAULT_RETRY_CONFIG} \cup
    [maxRetries : 0..MaxRetriesBound, baseDelayMs : {1, 3}, maxDelayMs : {3, 4}]

RECURSIVE MathPow2(_)
MathPow2(n) == IF n = 0 THEN 1 ELSE 2 * MathPow2(n - 1)

\* Math.round of the rational p/q, q > 0: floor(p/q + 1/2)
MathRound(p, q) == (2 * p + q) \div (2 * q)

\* The same computation without the cap.
calculateDelay_uncapped(attempt, config, random) ==
    LET exponentialDelay == config.baseDelayMs * MathPow2(attempt)
        num == random[1]
        den == random[2]
    IN  MathRound(exponentialDelay * (3 * den + 2 * num), 4 * den)

\* random = <<num, den>> is the value of Math.random().
\* jitter = cappedDelay * 0.25 * (random * 2 - 1), so that
\* cappedDelay + jitter = cappedDelay * (3*den + 2*num) / (4*den).
calculateDelay(attempt, config, random) ==
    LET MathMin(a, b) == IF a <= b THEN a ELSE b
        exponentialDelay == config.baseDelayMs * MathPow2(attempt)
        cappedDelay == MathMin(exponentialDelay, config.maxDelayMs)
        num == random[1]
        den == random[2]
    IN  MathRound(cappedDelay * (3 * den + 2 * num), 4 * den)

RandomDraws(steps) == {<<k, steps>> : k \in 0..(steps - 1)}

(***************************************************************************)
(* Values: errors, results                                                 *)
(***************************************************************************)
\* An Error object: its message, and the fn invocation of the withRetry call
\* that raised it (object identity). raisedBy = 0: no error (undefined).
Error(message, n) == [message |-> message, raisedBy |-> n, wraps |-> FALSE]
NoError == [message |-> <<>>, raisedBy |-> 0, wraps |-> FALSE]
NoValue == [tag |-> "none"]

\* A settled promise of fn().
Resolved(value) == [ok |-> TRUE, value |-> value, error |-> NoError]
Rejected(error) == [ok |-> FALSE, value |-> NoValue, error |-> error]

\* Message texts of errors: those fn raises (econnrefused, http503, unauthorized),
\* the TypeError of new URL (invalidUrl), the SDK's error on a closed client
\* (notConnected), the SyntaxError of JSON.parse (syntaxError) and the TypeError
\* that reading a property of null raises (nullProperty).
Message ==
    [ econnrefused |-> <<"c","o","n","n","e","c","t"," ","E","C","O","N","N","R","E","F","U","S","E","D">>,
      http503 |-> <<"H","T","T","P"," ","5","0","3">>,
      unauthorized |-> <<"U","n","a","u","t","h","o","r","i","z","e","d">>,
      syntaxError |-> <<"J","S","O","N"," ","P","a","r","s","e"," ","e","r","r","o","r",":"," ","U","n","e","x","p","e","c","t","e","d"," ","i","d","e","n","t","i","f","i","e","r"," ","\"","n","o","t","\"">>,
      nullProperty |-> <<"n","u","l","l"," ","i","s"," ","n","o","t"," ","a","n"," ","o","b","j","e","c","t"," ","(","e","v","a","l","u","a","t","i","n","g"," ","'","c","o","n","f","i","g",".","m","c","p","S","e","r","v","e","r","s","'",")">>,
      invalidUrl |-> <<"I","n","v","a","l","i","d"," ","U","R","L">>,
      notConnected |-> <<"N","o","t"," ","c","o","n","n","e","c","t","e","d">> ]

\* Messages of the errors an operation handed to withRetry raises.
FnMessages == {Message.econnrefused, Message.http503, Message.unauthorized}

(***************************************************************************)
(* withRetry (client.ts 97-125)                                            *)
(*   pc: idle      no call in progress                                     *)
(*       running   awaiting fn() (line 106)                                *)
(*       sleeping  awaiting sleep(delay) (line 117)                        *)
(*       returned  the call returned wr.value                              *)
(*       thrown    the call raised wr.thrown                               *)
(*   fnCalls, raised, sleeps and log record what the call did.             *)
(***************************************************************************)
IdleFrame ==
    [pc |-> "idle", kind |-> "none", operationName |-> <<>>, config |-> DEFAULT_RETRY_CONFIG,
     attempt |-> 0, lastError |-> NoError, fnCalls |-> 0, raised |-> <<>>,
     sleeps |-> <<>>, log |-> <<>>, value |-> NoValue, thrown |-> NoError]

\* One attempt counter for the session: an operation goes on from the retries the
\* connect used.
withRetry_sharedBudget(kind, operationName, config) ==
    [IdleFrame EXCEPT !.pc = "running", !.kind = kind, !.operationName = operationName,
                      !.config = config, !.fnCalls = 1,
                      !.attempt = IF kind = "connect" \/ cl.clients = 0 THEN 0
                                  ELSE cl.clients - 1]

\* Lines 102-106: lastError undefined, attempt = 0, the loop test and the first fn().
\* With maxRetries < 0 the loop body never runs and line 124 throws undefined.
withRetry(kind, operationName, config) ==
    IF 0 <= config.maxRetries
    THEN [IdleFrame EXCEPT !.pc = "running", !.kind = kind, !.operationName = operationName,
                           !.config = config, !.fnCalls = 1]
    ELSE [IdleFrame EXCEPT !.pc = "thrown", !.kind = kind, !.operationName = operationName,
                           !.config = config]

\* One retry fewer than the policy allows.
shouldRetry_oneFewer(attempt, config, lastError) ==
    attempt + 1 < config.maxRetries /\ isTransientError(lastError)

\* Retrying whatever the error is.
shouldRetry_anyError(attempt, config, lastError) ==
    attempt < config.maxRetries

\* The test of line 110 with <= in the place of <.
shouldRetry_inclusive(attempt, config, lastError) ==
    attempt <= config.maxRetries /\ isTransientError(lastError)

\* Line 110.
shouldRetry(attempt, config, lastError) ==
    attempt < config.maxRetries /\ isTransientError(lastError)

\* The attempt counter printed as the loop index.
retryLine_zeroBased(frame, lastError, delay) ==
    [operationName |-> frame.operationName, attemptNo |-> frame.attempt,
     total |-> frame.config.maxRetries + 1, message |-> lastError.message, delay |-> delay]

\* Lines 113-115: the diagnostic line.
retryLine(frame, lastError, delay) ==
    [operationName |-> frame.operationName, attemptNo |-> frame.attempt + 1,
     total |-> frame.config.maxRetries + 1, message |-> lastError.message, delay |-> delay]

\* Lines 119 and 124: throw lastError.
propagate(lastError) == lastError

\* if (value) for an environment value: undefined and "" are falsy, every other
\* string ("1", "true", also "0" and "false") is truthy.
Truthy(value) == value # <<>> /\ value[1] # ""

\* The sleep placed inside the if of line 112.
retryStep_sleepUnderDebug(frame, lastError, delay, debug) ==
    IF Truthy(debug)
    THEN [frame EXCEPT !.pc = "sleeping", !.lastError = lastError,
                       !.raised = Append(@, lastError),
                       !.sleeps = Append(@, delay),
                       !.log = Append(@, retryLine(frame, lastError, delay))]
    ELSE [frame EXCEPT !.pc = "sleeping", !.lastError = lastError,
                       !.raised = Append(@, lastError)]

\* Lines 112-117: the diagnostic line when MCP_DEBUG is set, then sleep(delay).
retryStep(frame, lastError, delay, debug) ==
    [frame EXCEPT !.pc = "sleeping", !.lastError = lastError,
                  !.raised = Append(@, lastError),
                  !.sleeps = Append(@, delay),
                  !.log = IF Truthy(debug)
                          THEN Append(@, retryLine(frame, lastError, delay))
                          ELSE @]

\* lastError assigned only while it is undefined: the first error is the one kept.
settled_firstError(frame, outcome, random, debug) ==
    IF outcome.ok
    THEN [frame EXCEPT !.pc = "returned", !.value = outcome.value]
    ELSE LET lastError == IF frame.raised = <<>> THEN outcome.error ELSE frame.lastError IN
         IF shouldRetry(frame.attempt, frame.config, outcome.error)
         THEN [retryStep(frame, lastError, calculateDelay(frame.attempt, frame.config, random), debug)
                  EXCEPT !.raised = Append(frame.raised, outcome.error)]
         ELSE [frame EXCEPT !.pc = "thrown", !.lastError = lastError,
                            !.raised = Append(@, outcome.error),
                            !.thrown = propagate(lastError)]

\* The loop going on after a success: the value is kept and fn is called again.
settled_noReturn(frame, outcome, random, debug) ==
    IF outcome.ok
    THEN [frame EXCEPT !.pc = IF frame.attempt < frame.config.maxRetries
                              THEN "sleeping" ELSE "returned",
                       !.value = outcome.value]
    ELSE LET lastError == outcome.error IN
         IF shouldRetry(frame.attempt, frame.config, lastError)
         THEN retryStep(frame, lastError, calculateDelay(frame.attempt, frame.config, random), debug)
         ELSE [frame EXCEPT !.pc = "thrown", !.lastError = lastError,
                            !.raised = Append(@, lastError),
                            !.thrown = propagate(lastError)]

\* The delay computed from the number of the attempt that failed, counted from one.
settled_oneBased(frame, outcome, random, debug) ==
    IF outcome.ok
    THEN [frame EXCEPT !.pc = "returned", !.value = outcome.value]
    ELSE LET lastError == outcome.error IN
         IF shouldRetry(frame.attempt, frame.config, lastError)
         THEN retryStep(frame, lastError, calculateDelay(frame.attempt + 1, frame.config, random), debug)
         ELSE [frame EXCEPT !.pc = "thrown", !.lastError = lastError,
                            !.raised = Append(@, lastError),
                            !.thrown = propagate(lastError)]

\* Lines 105-121: the frame once the awaited fn() has settled with `outcome`;
\* random is the value Math.random() gives calculateDelay.
settled(frame, outcome, random, debug) ==
    IF outcome.ok
    THEN [frame EXCEPT !.pc = "returned", !.value = outcome.value]
    ELSE LET lastError == outcome.error IN
         IF shouldRetry(frame.attempt, frame.config, lastError)
         THEN retryStep(frame, lastError, calculateDelay(frame.attempt, frame.config, random), debug)
         ELSE [frame EXCEPT !.pc = "thrown", !.lastError = lastError,
                            !.raised = Append(@, lastError),
                            !.thrown = propagate(lastError)]

\* The loop starting over at attempt 0 after each sleep.
woken_restarts(frame) ==
    [frame EXCEPT !.pc = "running", !.attempt = 0, !.fnCalls = 1, !.raised = <<>>,
                  !.sleeps = <<>>, !.log = <<>>]

\* Lines 117, 104, 106, 124: the frame once sleep(delay) has resolved: attempt++, the
\* loop test, and either the next fn() or the throw after the loop.
woken(frame) ==
    IF frame.attempt + 1 <= frame.config.maxRetries
    THEN [frame EXCEPT !.pc = "running", !.attempt = @ + 1, !.fnCalls = @ + 1]
    ELSE [frame EXCEPT !.pc = "thrown", !.attempt = @ + 1, !.thrown = propagate(frame.lastError)]

\* Lines 106-121: the awaited fn() settles with `outcome`.
withRetrySettle(outcome) ==
    /\ wr.pc = "running"
    /\ \E random \in RandomDraws(RetryJitterSteps) : wr' = settled(wr, outcome, random, MCP_DEBUG)

\* Line 117: sleep(delay) resolves.
withRetryWake ==
    /\ wr.pc = "sleeping"
    /\ wr' = woken(wr)
    /\ UNCHANGED <<pureVars, envVars, cl, caller>>

(***************************************************************************)
(* config.ts: connection descriptors and the mcpServers object             *)
(***************************************************************************)
\* A ServerConfig as parsed from the file: which of the fields are present, the
\* url text, and the env mapping (name -> <<value>>).
Descriptor(hasCommand, hasUrl, url, hasEnv, env) ==
    [hasCommand |-> hasCommand, hasUrl |-> hasUrl, url |-> url, hasEnv |-> hasEnv, env |-> env]

\* Texts of the url field: one that parses, two that do not, one with ${...}.
Url ==
    [ valid |-> <<"h","t","t","p",":","/","/","h">>,
      malformed |-> <<"n","o","t"," ","a"," ","u","r","l">>,
      malformedNetwork |-> <<"n","e","t","w","o","r","k","-","h","o","s","t","/","m","c","p">>,
      template |-> <<"h","t","t","p",":","/","/","$","{","A","}","/","$","{","C","}">> ]
EmptyEnv == [k \in {} |-> <<>>]

\* Descriptors by the fields they have.
Desc ==
    [ stdio |-> Descriptor(TRUE, FALSE, <<>>, FALSE, EmptyEnv),
      stdioEnv |-> Descriptor(TRUE, FALSE, <<>>, TRUE, [k \in {"A", "B"} |-> IF k = "A" THEN <<"2">> ELSE <<"3">>]),
      http |-> Descriptor(FALSE, TRUE, Url.valid, FALSE, EmptyEnv),
      httpMalformed |-> Descriptor(FALSE, TRUE, Url.malformed, FALSE, EmptyEnv),
      httpMalformedNetwork |-> Descriptor(FALSE, TRUE, Url.malformedNetwork, FALSE, EmptyEnv),
      both |-> Descriptor(TRUE, TRUE, Url.valid, FALSE, EmptyEnv),
      neither |-> Descriptor(FALSE, FALSE, <<>>, FALSE, EmptyEnv),
      httpTemplate |-> Descriptor(FALSE, TRUE, Url.template, FALSE, EmptyEnv) ]

\* The shapes a descriptor object in the file can have.
Descriptors ==
    {Desc.stdio, Desc.stdioEnv, Desc.http, Desc.httpMalformed, Desc.httpMalformedNetwork, Desc.both, Desc.neither}

\* Server names.
Name ==
    [ a |-> <<"a">>,
      b |-> <<"b">>,
      n9 |-> <<"9">>,
      n10 |-> <<"1","0">>,
      toString |-> <<"t","o","S","t","r","i","n","g">>,
      constructor |-> <<"c","o","n","s","t","r","u","c","t","o","r">> ]

\* config.ts 45-47: 'url' in config
isHttpServer(config) == config.hasUrl

\* A guard that also asks for the args field.
isStdioServer_withArgs(config) == config.hasCommand /\ config.hasArgs

\* config.ts 52-56: 'command' in config
isStdioServer(config) == config.hasCommand

\* A property name that is an array index ("0", "9", "10": decimal digits with no
\* leading zero) is enumerated before the other names, in ascending numeric order.
Digits == <<"0","1","2","3","4","5","6","7","8","9">>

IsArrayIndex(name) ==
    LET IsDigit(c) == \E i \in 1..Len(Digits) : Digits[i] = c IN
    /\ Len(name) >= 1
    /\ \A i \in 1..Len(name) : IsDigit(name[i])
    /\ (Len(name) > 1 => name[1] # "0")

RECURSIVE ArrayIndexValue(_)
ArrayIndexValue(name) ==
    LET DigitValue(c) == (CHOOSE i \in 1..Len(Digits) : Digits[i] = c) - 1 IN
    IF Len(name) = 0 THEN 0
    ELSE 10 * ArrayIndexValue(SubSeq(name, 1, Len(name) - 1)) + DigitValue(name[Len(name)])

RECURSIVE SortedIndexNames(_)
SortedIndexNames(names) ==
    IF names = {} THEN <<>>
    ELSE LET least == CHOOSE n \in names : \A m \in names : ArrayIndexValue(n) <= ArrayIndexValue(m)
         IN  <<least>> \o SortedIndexNames(names \ {least})

\* Object.keys of an object whose properties were created in the order of `object`.
ObjectKeys(object) ==
    LET names == [i \in 1..Len(object) |-> object[i].name]
        indexNames == {names[i] : i \in {j \in 1..Len(names) : IsArrayIndex(names[j])}}
    IN  SortedIndexNames(indexNames) \o SelectSeq(names, LAMBDA n : ~IsArrayIndex(n))

\* config.ts 180-182
listServerNames(object) == ObjectKeys(object)

HasServer(object, serverName) == \E i \in 1..Len(object) : object[i].name = serverName

\* object[name]: the own property, else the member inherited from Object.prototype
\* (a function: truthy, without a url, a command or an env field), else undefined.
PropertyGet(object, name) ==
    LET ObjectPrototypeNames == {Name.toString, Name.constructor}
        InheritedMember == Descriptor(FALSE, FALSE, <<>>, FALSE, EmptyEnv)
    IN
    IF HasServer(object, name)
    THEN [defined |-> TRUE, value |-> object[CHOOSE i \in 1..Len(object) : object[i].name = name].descriptor]
    ELSE IF name \in ObjectPrototypeNames
    THEN [defined |-> TRUE, value |-> InheritedMember]
    ELSE [defined |-> FALSE, value |-> InheritedMember]

\* Array.prototype.join(", ")
RECURSIVE JoinComma(_)
JoinComma(names) ==
    IF Len(names) = 0 THEN <<>>
    ELSE IF Len(names) = 1 THEN names[1]
    ELSE names[1] \o <<",", " ">> \o JoinComma(Tail(names))

\* errors.ts: a CLI error is a kind, a primary message and a detail; formatCliError
\* renders the three as text.
CliError(type, message, details) == [type |-> type, message |-> message, details |-> details]

\* errors.ts: the texts the error builders put together.
ErrText ==
    [ colon |-> <<":"," ">>,
      quote |-> <<"\"">>,
      serverNotFound |-> <<"S","E","R","V","E","R","_","N","O","T","_","F","O","U","N","D">>,
      server |-> <<"S","e","r","v","e","r"," ">>,
      notFound |-> <<" ","n","o","t"," ","f","o","u","n","d">>,
      available |-> <<"A","v","a","i","l","a","b","l","e"," ","s","e","r","v","e","r","s",":"," ">>,
      configNotFound |-> <<"C","O","N","F","I","G","_","N","O","T","_","F","O","U","N","D">>,
      configFileNotFound |-> <<"C","o","n","f","i","g"," ","f","i","l","e"," ","n","o","t"," ","f","o","u","n","d",":"," ">>,
      configSearch |-> <<"C","O","N","F","I","G","_","N","O","T","_","F","O","U","N","D">>,
      noConfigFound |-> <<"N","o"," ","m","c","p","_","s","e","r","v","e","r","s",".","j","s","o","n"," ","f","o","u","n","d"," ","i","n"," ","a","n","y"," ","s","t","a","n","d","a","r","d"," ","l","o","c","a","t","i","o","n">>,
      configInvalidJson |-> <<"C","O","N","F","I","G","_","I","N","V","A","L","I","D","_","J","S","O","N">>,
      invalidJsonIn |-> <<"I","n","v","a","l","i","d"," ","J","S","O","N"," ","i","n"," ","c","o","n","f","i","g"," ","f","i","l","e",":"," ">>,
      configMissingField |-> <<"C","O","N","F","I","G","_","M","I","S","S","I","N","G","_","F","I","E","L","D">>,
      missingField |-> <<"C","o","n","f","i","g"," ","f","i","l","e"," ","m","i","s","s","i","n","g"," ","r","e","q","u","i","r","e","d"," ","\"","m","c","p","S","e","r","v","e","r","s","\""," ","o","b","j","e","c","t",":"," ">>,
      checkPath |-> <<"C","h","e","c","k"," ","t","h","e"," ","p","a","t","h"," ","o","f"," ","t","h","e"," ","c","o","n","f","i","g"," ","f","i","l","e">>,
      searched |-> <<"S","e","a","r","c","h","e","d"," ","t","h","e"," ","c","u","r","r","e","n","t"," ","d","i","r","e","c","t","o","r","y"," ","a","n","d"," ","t","h","e"," ","h","o","m","e"," ","d","i","r","e","c","t","o","r","y">>,
      expected |-> <<"E","x","p","e","c","t","e","d"," ","{","\"","m","c","p","S","e","r","v","e","r","s","\"",":"," ","{",".",".",".","}","}">>,
      serverConnection |-> <<"S","E","R","V","E","R","_","C","O","N","N","E","C","T","I","O","N","_","F","A","I","L","E","D">>,
      failedToConnect |-> <<"F","a","i","l","e","d"," ","t","o"," ","c","o","n","n","e","c","t"," ","t","o"," ","s","e","r","v","e","r"," ">>,
      toolNotFound |-> <<"T","O","O","L","_","N","O","T","_","F","O","U","N","D">>,
      tool |-> <<"T","o","o","l"," ">>,
      notFoundInServer |-> <<" ","n","o","t"," ","f","o","u","n","d"," ","i","n"," ","s","e","r","v","e","r"," ">>,
      availableTools |-> <<"A","v","a","i","l","a","b","l","e"," ","t","o","o","l","s",":"," ">> ]

formatCliError(error) == error.type \o ErrText.colon \o error.message \o ErrText.colon \o error.details

serverNotFoundError(serverName, available) ==
    CliError(ErrText.serverNotFound, ErrText.server \o ErrText.quote \o serverName \o ErrText.quote \o ErrText.notFound,
             ErrText.available \o JoinComma(available))

\* config.ts 165-175: config.mcpServers[serverName], and the error when it is falsy
\* (every descriptor of the model is an object, hence truthy).
getServerConfig(object, serverName) ==
    LET server == PropertyGet(object, serverName) IN
    IF ~server.defined
    THEN LET available == ObjectKeys(object)
         IN  Rejected(Error(formatCliError(serverNotFoundError(serverName, available)), 1))
    ELSE Resolved(server.value)

(***************************************************************************)
(* config.ts: loadConfig (62-160)                                          *)
(*   files: the paths that exist, each with the document it holds          *)
(***************************************************************************)
Cwd == <<"/","w">>

\* path.resolve of a path without "..": an absolute path as it is, any other one
\* under the working directory.
resolve(path) ==
    IF Len(path) > 0 /\ path[1] = "/" THEN path
    ELSE IF Len(path) > 1 /\ path[1] = "." /\ path[2] = "/" THEN Cwd \o SubSeq(path, 2, Len(path))
    ELSE IF Len(path) = 0 THEN Cwd
    ELSE Cwd \o <<"/">> \o path

\* path.join
join(dir, name) == dir \o <<"/">> \o name

\* Lines 91-103.
getDefaultConfigPaths ==
    LET Home == <<"/","h">> IN
    <<resolve(<<".","/","m","c","p","_","s","e","r","v","e","r","s",".","j","s","o","n">>), join(Home, <<".","m","c","p","_","s","e","r","v","e","r","s",".","j","s","o","n">>), join(join(join(Home, <<".","c","o","n","f","i","g">>), <<"m","c","p">>), <<"m","c","p","_","s","e","r","v","e","r","s",".","j","s","o","n">>)>>

existsSync(files, path) == path \in DOMAIN files

\* Lines 62-66: every ${NAME} (a "${", one or more characters other than "}", a "}")
\* is replaced, left to right, by process.env[NAME] || '' (names and values of the
\* model are one character long).
RECURSIVE substituteEnvVars(_, _)
substituteEnvVars(value, env) ==
    LET EnvOrEmpty(varName) ==
            IF Len(varName) = 1 /\ varName[1] \in DOMAIN env /\ Truthy(env[varName[1]])
            THEN <<env[varName[1]][1]>>
            ELSE <<>>
    IN
    IF Len(value) = 0 THEN <<>>
    ELSE IF /\ Len(value) >= 4
            /\ value[1] = "$"
            /\ value[2] = "{"
            /\ value[3] # "}"
            /\ \E j \in 4..Len(value) : value[j] = "}"
    THEN LET j == CHOOSE j \in 4..Len(value) :
                      value[j] = "}" /\ \A k \in 4..(j - 1) : value[k] # "}"
         IN  EnvOrEmpty(SubSeq(value, 3, j - 1))
                 \o substituteEnvVars(SubSeq(value, j + 1, Len(value)), env)
    ELSE <<value[1]>> \o substituteEnvVars(Tail(value), env)

\* Lines 71-86 on a parsed document: the url strings are the ones of the model that
\* hold ${...}.
substituteEnvVarsInObject(config, env) ==
    IF config.type = "object" /\ config.mcpServers.type = "object"
    THEN LET servers == config.mcpServers.servers
         IN  [config EXCEPT !.mcpServers.servers =
                 [k \in 1..Len(servers) |->
                     [servers[k] EXCEPT !.descriptor.url = substituteEnvVars(@, env)]]]
    ELSE config

\* JSON.parse of the document of each kind: the value, or a SyntaxError.
\*   config       {"mcpServers": {"a": {"url": "http://${A}/${C}"}}}
\*   arrayField   {"mcpServers": []}
\*   otherField   {"servers": {}}
\*   nullField    {"mcpServers": null}
\*   stringField  {"mcpServers": "x"}
\*   null, number null, 5
JsValue(type, file, hasMcpServers, member) ==
    [type |-> type, file |-> file, hasMcpServers |-> hasMcpServers, mcpServers |-> member]

JsMember(type, servers) == [type |-> type, servers |-> servers]

JSONParse(document) ==
    LET file == document.file
        kind == document.kind
    IN  IF kind = "notJson" THEN Rejected(Error(Message.syntaxError, 1))
        ELSE IF kind = "config"
        THEN Resolved(JsValue("object", file, TRUE,
                 JsMember("object", <<[name |-> Name.a, descriptor |-> Desc.httpTemplate]>>)))
        ELSE IF kind = "arrayField" THEN Resolved(JsValue("object", file, TRUE, JsMember("array", <<>>)))
        ELSE IF kind = "otherField" THEN Resolved(JsValue("object", file, FALSE, JsMember("undefined", <<>>)))
        ELSE IF kind = "nullField" THEN Resolved(JsValue("object", file, TRUE, JsMember("null", <<>>)))
        ELSE IF kind = "stringField" THEN Resolved(JsValue("object", file, TRUE, JsMember("string", <<>>)))
        ELSE IF kind = "null" THEN Resolved(JsValue("null", file, FALSE, JsMember("undefined", <<>>)))
        ELSE Resolved(JsValue("number", file, FALSE, JsMember("undefined", <<>>)))

configNotFoundError(path) == CliError(ErrText.configNotFound, ErrText.configFileNotFound \o path, ErrText.checkPath)

configSearchError == CliError(ErrText.configSearch, ErrText.noConfigFound, ErrText.searched)

configInvalidJsonError(path, parseError) ==
    CliError(ErrText.configInvalidJson, ErrText.invalidJsonIn \o path, parseError)

configMissingFieldError(path) == CliError(ErrText.configMissingField, ErrText.missingField \o path, ErrText.expected)

LoadResult(outcome, configPath) ==
    [ok |-> outcome.ok, value |-> outcome.value, error |-> outcome.error, configPath |-> configPath]

\* Lines 141-159: the file is read, parsed, validated and substituted. typeof is
\* 'object' for objects, arrays and null; undefined and null are falsy, a string
\* of the model, objects and arrays are truthy.
readConfig(configPath, files, env) ==
    LET parsed == JSONParse(files[configPath])
        TypeofObject(value) == value.type \in {"object", "array", "null"}
        Falsy(value) == value.type \in {"undefined", "null"}
    IN
    IF ~parsed.ok
    THEN Rejected(Error(formatCliError(configInvalidJsonError(configPath, parsed.error.message)), 1))
    ELSE LET config == parsed.value IN
         IF config.type = "null" THEN Rejected(Error(Message.nullProperty, 1))
         ELSE IF Falsy(config.mcpServers) \/ ~TypeofObject(config.mcpServers)
         THEN Rejected(Error(formatCliError(configMissingFieldError(configPath)), 1))
         ELSE Resolved(substituteEnvVarsInObject(config, env))

\* Lines 127-133: the first of the paths that exists, <<>> when none does.
firstExisting(files, searchPaths) ==
    IF \E k \in 1..Len(searchPaths) : existsSync(files, searchPaths[k])
    THEN <<searchPaths[CHOOSE k \in 1..Len(searchPaths) :
                          /\ existsSync(files, searchPaths[k])
                          /\ \A j \in 1..(k - 1) : ~existsSync(files, searchPaths[j])]>>
    ELSE <<>>

\* if (path) for a path or undefined (<<>>): undefined and "" are falsy.
Given(path) == path # <<>> /\ Len(path[1]) > 0

\* An explicit path that does not exist giving way to the search of the default paths.
loadConfig_fallsBack(explicitPath, env, envPath, files) ==
    LET given == IF Given(explicitPath) THEN <<resolve(explicitPath[1])>>
                 ELSE IF Given(envPath) THEN <<resolve(envPath[1])>>
                 ELSE <<>>
        configPath == IF given # <<>> /\ existsSync(files, given[1])
                      THEN given
                      ELSE firstExisting(files, getDefaultConfigPaths)
    IN  IF configPath = <<>>
        THEN LoadResult(Rejected(Error(formatCliError(configSearchError), 1)), <<>>)
        ELSE LoadResult(readConfig(configPath[1], files, env), configPath)

\* Lines 108-160. explicitPath is the argument and envPath is
\* process.env.MCP_CONFIG_PATH, each <<>> when undefined.
loadConfig(explicitPath, env, envPath, files) ==
    LET given == IF Given(explicitPath) THEN <<resolve(explicitPath[1])>>
                 ELSE IF Given(envPath) THEN <<resolve(envPath[1])>>
                 ELSE <<>>
    IN  IF given # <<>>
        THEN IF ~existsSync(files, given[1])
             THEN LoadResult(Rejected(Error(formatCliError(configNotFoundError(given[1])), 1)), given)
             ELSE LoadResult(readConfig(given[1], files, env), given)
        ELSE LET configPath == firstExisting(files, getDefaultConfigPaths) IN
             IF configPath = <<>>
             THEN LoadResult(Rejected(Error(formatCliError(configSearchError), 1)), <<>>)
             ELSE LoadResult(readConfig(configPath[1], files, env), configPath)

(***************************************************************************)
(* client.ts: transports (170-203)                                         *)
(***************************************************************************)
\* new URL(text) succeeds when the text starts with a scheme: letters and then ":".
URLParses(text) ==
    \E i \in 2..Len(text) :
        /\ text[i] = ":"
        /\ \A j \in 1..(i - 1) : toLowerCaseChar(text[j]) # toUpperCaseChar(text[j])

\* The message of the TypeError new URL(text) raises is the runtime's: a fixed text
\* (Node), or a text that quotes the input (Bun).
URLErrorMessages(text) ==
    {Message.invalidUrl,
     <<"\"">> \o text \o <<"\"">> \o <<" ","c","a","n","n","o","t"," ","b","e"," ","p","a","r","s","e","d",
                                    " ","a","s"," ","a"," ","U","R","L",".">>}

\* Lines 170-180. The result is the transport, or the TypeError of new URL.
createHttpTransport(config) ==
    IF URLParses(config.url)
    THEN [built |-> TRUE, variant |-> "http", url |-> config.url, env |-> EmptyEnv]
    ELSE [built |-> FALSE, variant |-> "http", url |-> config.url, env |-> EmptyEnv]

\* Lines 187-192: the entries of process.env whose value is not undefined.
DefinedEntries(env) == [k \in {n \in DOMAIN env : env[n] # <<>>} |-> env[k]]

\* Object.assign keeping the target's value on a collision.
ObjectAssign_targetWins(target, source) ==
    [k \in DOMAIN target \cup DOMAIN source |->
        IF k \in DOMAIN target THEN target[k] ELSE source[k]]

\* Object.assign(target, source)
ObjectAssign(target, source) ==
    [k \in DOMAIN target \cup DOMAIN source |->
        IF k \in DOMAIN source THEN source[k] ELSE target[k]]

\* Object.assign with process.env as its target.
objectsAfterStdioTransport_assignsProcessEnv(config, env) ==
    [processEnv |-> IF config.hasEnv THEN ObjectAssign(env, config.env) ELSE env,
     config |-> config]

\* Lines 187-195: the descriptor and process.env once createStdioTransport is done.
\* Both are only read: the loop and Object.assign write to mergedEnv, a new object.
objectsAfterStdioTransport(config, env) == [processEnv |-> env, config |-> config]

\* Lines 185-203.
createStdioTransport(config, env) ==
    LET mergedEnv == DefinedEntries(env)
    IN  [built |-> TRUE, variant |-> "stdio", url |-> <<>>,
         env |-> IF config.hasEnv THEN ObjectAssign(mergedEnv, config.env) ELSE mergedEnv]

(***************************************************************************)
(* client.ts: sessions (130-165, 208-231)                                  *)
(*   cl.sess      Unconnected, Connecting (inside connectToServer), Open   *)
(*                (a ConnectedClient was returned), Closed (close called)  *)
(* cl describes the session of the latest connectToServer call:            *)
(*   cl.clients   Client objects that call constructed so far              *)
(*   cl.session   the client of the returned ConnectedClient, 0: none      *)
(*   cl.listToolsOps  listTools operations started on that client          *)
(*   cl.releases  client.close() calls issued on that client               *)
(***************************************************************************)
IdleClient ==
    [sess |-> "Unconnected", server |-> <<>>, config |-> Desc.stdio, clients |-> 0,
     transports |-> <<>>, session |-> 0, listToolsOps |-> 0, releases |-> 0,
     closing |-> FALSE]

\* Messages of the errors the SDK client raises from connect, listTools and close.
SdkMessages == {Message.econnrefused, Message.unauthorized}

\* The tools the server of each name serves: name, description (<<>>: undefined),
\* inputSchema, and a field ToolInfo does not keep.
SdkTool(name, description, inputSchema) ==
    [name |-> name, description |-> description, inputSchema |-> inputSchema, annotations |-> "hints"]

ServerTools(serverName) ==
    IF serverName = Name.a THEN <<SdkTool("read", <<"reads a file">>, "S1"), SdkTool("write", <<>>, "S2")>>
    ELSE IF serverName = Name.b THEN <<SdkTool("Read", <<>>, "S3"), SdkTool("read", <<"reads">>, "S4")>>
    ELSE IF serverName = Name.n9 THEN <<SdkTool("list", <<>>, "S5")>>
    ELSE <<>>

\* Lines 212-216.
toToolInfo(tool) ==
    [name |-> tool.name, description |-> tool.description, inputSchema |-> tool.inputSchema]

\* Lines 146-152.
selectTransport(config, env) ==
    IF isHttpServer(config) THEN createHttpTransport(config) ELSE createStdioTransport(config, env)

\* Lines 135-161, the n-th fn() of a connect: what client.connect(transport) can do.
\* A local transport without a command cannot spawn anything.
ConnectOutcomes(transport, config, client, n) ==
    IF ~transport.built THEN {Rejected(Error(m, n)) : m \in URLErrorMessages(config.url)}
    ELSE {Rejected(Error(m, n)) : m \in SdkMessages} \cup
         (IF transport.variant = "stdio" /\ ~config.hasCommand
          THEN {}
          ELSE {Resolved([tag |-> "ConnectedClient", client |-> client])})

\* Lines 130-134: connectToServer enters withRetry.
connectToServerCall(serverName, config) ==
    /\ wr.pc = "idle"
    /\ wr' = withRetry("connect", <<"connect to ", serverName>>, DEFAULT_RETRY_CONFIG)
    /\ cl' = [IdleClient EXCEPT !.sess = "Connecting", !.server = serverName, !.config = config]

\* One Client constructed before the retry loop and connected again at every attempt.
ConnectSettles_sharedClient ==
    /\ wr.kind = "connect"
    /\ LET transport == selectTransport(cl.config, processEnv)
           client == IF cl.clients = 0 THEN 1 ELSE cl.clients
           objects == IF isHttpServer(cl.config)
                      THEN [processEnv |-> processEnv, config |-> cl.config]
                      ELSE objectsAfterStdioTransport(cl.config, processEnv)
       IN  /\ \E outcome \in ConnectOutcomes(transport, cl.config, client, wr.fnCalls) :
                  withRetrySettle(outcome)
           /\ cl' = [cl EXCEPT !.clients = client,
                               !.config = objects.config,
                               !.transports = IF transport.built
                                              THEN Append(@, [client |-> client,
                                                              variant |-> transport.variant,
                                                              env |-> transport.env,
                                                              config |-> cl.config])
                                              ELSE @]
           /\ processEnv' = objects.processEnv
    /\ UNCHANGED <<pureVars, MCP_DEBUG, mcpServers, caller>>

\* Lines 135-161 under withRetry: a new Client, the transport, client.connect settles.
ConnectSettles ==
    /\ wr.kind = "connect"
    /\ LET transport == selectTransport(cl.config, processEnv)
           client == cl.clients + 1
           objects == IF isHttpServer(cl.config)
                      THEN [processEnv |-> processEnv, config |-> cl.config]
                      ELSE objectsAfterStdioTransport(cl.config, processEnv)
       IN  /\ \E outcome \in ConnectOutcomes(transport, cl.config, client, wr.fnCalls) :
                  withRetrySettle(outcome)
           /\ cl' = [cl EXCEPT !.clients = client,
                               !.config = objects.config,
                               !.transports = IF transport.built
                                              THEN Append(@, [client |-> client,
                                                              variant |-> transport.variant,
                                                              env |-> transport.env,
                                                              config |-> cl.config])
                                              ELSE @]
           /\ processEnv' = objects.processEnv
    /\ UNCHANGED <<pureVars, MCP_DEBUG, mcpServers, caller>>

\* A failed connect leaving the session closed.
sessAfterGiveUp_closed == "Closed"

\* connectToServer raised: there is no session.
sessAfterGiveUp == "Unconnected"

\* connectToServer returns the ConnectedClient (lines 156-161) or raises.
connectToServerReturns ==
    /\ wr.kind = "connect"
    /\ wr.pc \in {"returned", "thrown"}
    /\ cl' = IF wr.pc = "returned"
             THEN [cl EXCEPT !.sess = "Open", !.session = wr.value.client]
             ELSE [cl EXCEPT !.sess = sessAfterGiveUp]
    /\ wr' = IdleFrame

\* Lines 208-209: listTools enters withRetry.
listToolsCall ==
    /\ wr.pc = "idle"
    /\ wr' = withRetry("list tools", <<"list tools">>, DEFAULT_RETRY_CONFIG)
    /\ cl' = [cl EXCEPT !.listToolsOps = @ + 1]

\* What client.listTools() can do at the n-th fn(); a closed client is not connected.
ListToolsOutcomes(n) ==
    IF cl.sess = "Open"
    THEN {Resolved([tag |-> "tools",
                    tools |-> [i \in 1..Len(ServerTools(cl.server)) |->
                                  toToolInfo(ServerTools(cl.server)[i])]])}
         \cup {Rejected(Error(m, n)) : m \in SdkMessages}
    ELSE {Rejected(Error(Message.notConnected, n))}

\* Lines 210-217 under withRetry: client.listTools() settles.
ListToolsSettles ==
    /\ wr.kind = "list tools"
    /\ \E outcome \in ListToolsOutcomes(wr.fnCalls) : withRetrySettle(outcome)
    /\ UNCHANGED <<pureVars, envVars, cl, caller>>

\* Lines 236-241: callTool enters withRetry.
callToolCall(toolName) ==
    /\ wr.pc = "idle"
    /\ wr' = withRetry("call tool", <<"call tool ", toolName>>, DEFAULT_RETRY_CONFIG)

\* Lines 242-248 under withRetry: client.callTool() settles with the server's result
\* or an error of the SDK; a closed client is not connected.
CallToolSettles ==
    /\ wr.kind = "call tool"
    /\ LET CallToolOutcomes(n) ==
               IF cl.sess = "Open"
               THEN {Resolved([tag |-> "result", by |-> n])}
                    \cup {Rejected(Error(m, n)) : m \in SdkMessages}
               ELSE {Rejected(Error(Message.notConnected, n))}
       IN  \E outcome \in CallToolOutcomes(wr.fnCalls) : withRetrySettle(outcome)
    /\ UNCHANGED <<pureVars, envVars, cl, caller>>

Undefined == [tag |-> "undefined"]

\* Names compared without regard to letter case.
LowerName(name) ==
    IF name = "Read" THEN "read" ELSE name

find_ignoringCase(tools, toolName) ==
    IF \E i \in 1..Len(tools) : LowerName(tools[i].name) = LowerName(toolName)
    THEN [tag |-> "tool",
          tool |-> tools[CHOOSE i \in 1..Len(tools) :
                            /\ LowerName(tools[i].name) = LowerName(toolName)
                            /\ \A j \in 1..(i - 1) : LowerName(tools[j].name) # LowerName(toolName)]]
    ELSE Undefined

\* Line 230: tools.find((t) => t.name === toolName)
find(tools, toolName) ==
    IF \E i \in 1..Len(tools) : tools[i].name = toolName
    THEN [tag |-> "tool",
          tool |-> tools[CHOOSE i \in 1..Len(tools) :
                            /\ tools[i].name = toolName
                            /\ \A j \in 1..(i - 1) : tools[j].name # toolName]]
    ELSE Undefined

\* Lines 158-160: close() calls client.close().
closeCall ==
    /\ cl.session # 0
    /\ ~cl.closing
    /\ cl' = [cl EXCEPT !.sess = "Closed", !.closing = TRUE, !.releases = @ + 1]

\* client.close() settles.
CloseOutcomes == {Resolved(NoValue)} \cup {Rejected(Error(m, 1)) : m \in SdkMessages}

closeSettles ==
    /\ cl.closing
    /\ cl' = [cl EXCEPT !.closing = FALSE]

\* process.env of the run: A collides with Desc.stdioEnv's env, C is undefined.
AmbientEnv == [k \in {"A", "C"} |-> IF k = "A" THEN <<"1">> ELSE <<>>]

(***************************************************************************)
(* withRetry called directly, with any policy and any operation            *)
(***************************************************************************)
NoCall == [fn |-> "none"]
NoRet == [done |-> FALSE]

\* What fn() does at its n-th invocation.
FnOutcomes(n) ==
    {Resolved([tag |-> "value", by |-> n])} \cup {Rejected(Error(m, n)) : m \in FnMessages}

RetryInit ==
    /\ call = NoCall
    /\ ret = NoRet
    /\ MCP_DEBUG \in {<<>>, <<"">>, <<"1">>, <<"false">>}
    /\ processEnv = AmbientEnv
    /\ mcpServers = <<>>
    /\ wr = IdleFrame
    /\ cl = IdleClient
    /\ caller = [pc |-> "direct", calls |-> 0, twin |-> IdleFrame]

\* The same environment with the MCP_DEBUG toggle the other way.
Toggled(debug) == IF Truthy(debug) THEN <<>> ELSE <<"1">>

\* caller.twin is the frame of the same call, fed the same fn() outcomes and the same
\* Math.random() values, in a process whose MCP_DEBUG toggle is the other way.
CallWithRetry ==
    /\ wr.pc = "idle"
    /\ caller.calls < MaxCalls
    /\ \E config \in Policies :
          /\ wr' = withRetry("fn", <<"operation">>, config)
          /\ caller' = [caller EXCEPT !.calls = @ + 1,
                                      !.twin = withRetry("fn", <<"operation">>, config)]
    /\ UNCHANGED <<pureVars, envVars, cl>>

FnSettles ==
    /\ wr.kind = "fn"
    /\ wr.pc = "running"
    /\ \E outcome \in FnOutcomes(wr.fnCalls), random \in RandomDraws(RetryJitterSteps) :
          /\ wr' = settled(wr, outcome, random, MCP_DEBUG)
          /\ caller' = [caller EXCEPT !.twin = IF @.pc = "running"
                                               THEN settled(@, outcome, random, Toggled(MCP_DEBUG))
                                               ELSE @]
    /\ UNCHANGED <<pureVars, envVars, cl>>

FnWake ==
    /\ wr.kind = "fn"
    /\ wr.pc = "sleeping"
    /\ wr' = woken(wr)
    /\ caller' = [caller EXCEPT !.twin = IF @.pc = "sleeping" THEN woken(@) ELSE @]
    /\ UNCHANGED <<pureVars, envVars, cl>>

\* The caller takes the value or catches the error; the frame is discarded.
CallerResumes ==
    /\ caller.pc = "direct"
    /\ wr.pc \in {"returned", "thrown"}
    /\ wr' = IdleFrame
    /\ caller' = [caller EXCEPT !.twin = IdleFrame]
    /\ UNCHANGED <<pureVars, envVars, cl>>

RetryNext == CallWithRetry \/ FnSettles \/ FnWake \/ CallerResumes

SpecRetry == RetryInit /\ [][RetryNext]_vars

\* The same with every awaited promise settling: the promise of fn() (line 106) and
\* the timer of sleep (lines 90-92, 117).
SpecRetryFair == SpecRetry /\ WF_vars(FnSettles) /\ WF_vars(FnWake)

AllTransient(errors) == \A i \in 1..Len(errors) : isTransientError(errors[i])

\* C1: a withRetry call whose operation raised a transient error on every attempt
\* made maxRetries + 1 attempts (maxRetries backoff suspensions between them) and
\* raised the error of its last attempt itself, not a wrapper; while it runs it never
\* exceeds maxRetries + 1 attempts.
C1_ExhaustedRetries ==
    /\ wr.fnCalls <= wr.config.maxRetries + 1
    /\ (wr.pc = "thrown" /\ AllTransient(wr.raised)) =>
          /\ wr.fnCalls = wr.config.maxRetries + 1
          /\ Len(wr.raised) = wr.fnCalls
          /\ Len(wr.sleeps) = wr.config.maxRetries
          /\ wr.thrown = wr.raised[wr.fnCalls]
          /\ ~wr.thrown.wraps

C1_Witness ==
    /\ wr.pc = "thrown"
    /\ wr.config = DEFAULT_RETRY_CONFIG
    /\ AllTransient(wr.raised)
    /\ wr.fnCalls = 4
    /\ wr.thrown = wr.raised[4]

\* C2: once the first attempt of a withRetry call has raised a fatal error, the call
\* has raised that error after exactly one attempt and without any suspension.
C2_FatalFirst ==
    (Len(wr.raised) >= 1 /\ ~isTransientError(wr.raised[1])) =>
        /\ wr.pc = "thrown"
        /\ wr.fnCalls = 1
        /\ wr.sleeps = <<>>
        /\ wr.thrown = wr.raised[1]

C2_Witness ==
    /\ wr.pc = "thrown"
    /\ wr.config = DEFAULT_RETRY_CONFIG
    /\ wr.raised = <<Error(Message.unauthorized, 1)>>
    /\ wr.fnCalls = 1

\* C13: fed the same outcomes, a withRetry call and its twin under the other setting of
\* MCP_DEBUG are at the same point after the same attempts and the same suspensions,
\* with the same errors seen and the same value returned or error raised.
C13_DebugDoesNotAffectControlFlow ==
    /\ caller.twin.pc = wr.pc
    /\ caller.twin.attempt = wr.attempt
    /\ caller.twin.fnCalls = wr.fnCalls
    /\ caller.twin.sleeps = wr.sleeps
    /\ caller.twin.raised = wr.raised
    /\ caller.twin.value = wr.value
    /\ caller.twin.thrown = wr.thrown

C13_Witness ==
    /\ Truthy(MCP_DEBUG)
    /\ wr.pc = "thrown"
    /\ Len(wr.sleeps) = 2
    /\ Len(wr.log) = 2
    /\ caller.twin.pc = "thrown"
    /\ caller.twin.log = <<>>

\* C14: with MCP_DEBUG unset a withRetry call emits no line; with it enabled the call
\* has emitted exactly one line per failed attempt that another attempt follows (none
\* for a successful attempt or the last failing one), the k-th line carrying the
\* operation label, attempt k of maxRetries + 1 and the message of the k-th error.
C14_DiagnosticLines ==
    /\ MCP_DEBUG = <<>> => wr.log = <<>>
    /\ Truthy(MCP_DEBUG) =>
          /\ Len(wr.log) = (IF wr.pc = "sleeping" THEN wr.fnCalls
                            ELSE IF wr.fnCalls = 0 THEN 0 ELSE wr.fnCalls - 1)
          /\ \A k \in 1..Len(wr.log) :
                /\ wr.log[k].operationName = wr.operationName
                /\ wr.log[k].attemptNo = k
                /\ wr.log[k].total = wr.config.maxRetries + 1
                /\ wr.log[k].message = wr.raised[k].message

C14_Witness ==
    /\ MCP_DEBUG = <<"1">>
    /\ wr.pc = "returned"
    /\ wr.fnCalls = 3
    /\ Len(wr.log) = 2
    /\ wr.log[2].attemptNo = 2
    /\ wr.log[2].total = 4
    /\ wr.log[2].message = Message.http503

\* min(base * 2^k, cap)
PreJitterDelay(config, k) ==
    IF config.baseDelayMs * (2 ^ k) <= config.maxDelayMs
    THEN config.baseDelayMs * (2 ^ k)
    ELSE config.maxDelayMs

\* C22: a withRetry call has suspended once after each failed attempt that another
\* attempt follows: never before the first attempt nor after the last one. The
\* suspension after attempt k (counted from zero) lasts min(base * 2^k, cap) with the
\* jitter of some draw applied; that delay before jitter never decreases with k, and
\* under the default policy it is 1000, 2000, 4000 ms, 7000 ms in all.
C22_BackoffSchedule ==
    /\ Len(wr.sleeps) = (IF wr.pc = "sleeping" THEN wr.fnCalls
                         ELSE IF wr.fnCalls = 0 THEN 0 ELSE wr.fnCalls - 1)
    /\ Len(wr.sleeps) <= wr.config.maxRetries
    /\ \A n \in 1..Len(wr.sleeps) :
          LET k == n - 1
              delay == PreJitterDelay(wr.config, k)
          IN  /\ \E random \in RandomDraws(RetryJitterSteps) :
                    wr.sleeps[n] =
                        (2 * delay * (3 * random[2] + 2 * random[1]) + 4 * random[2])
                            \div (8 * random[2])
              /\ k > 0 => PreJitterDelay(wr.config, k - 1) <= delay
    /\ (wr.config = DEFAULT_RETRY_CONFIG /\ Len(wr.sleeps) = 3) =>
          /\ <<PreJitterDelay(wr.config, 0), PreJitterDelay(wr.config, 1),
               PreJitterDelay(wr.config, 2)>> = <<1000, 2000, 4000>>
          /\ PreJitterDelay(wr.config, 0) + PreJitterDelay(wr.config, 1)
                + PreJitterDelay(wr.config, 2) = 7000

C22_Witness ==
    /\ wr.pc = "thrown"
    /\ wr.config = DEFAULT_RETRY_CONFIG
    /\ wr.fnCalls = 4
    /\ wr.sleeps = <<1000, 2000, 4000>>

\* C24: a withRetry call that has returned returns the value of its last attempt,
\* made after k transient failures, k <= maxRetries, in k + 1 attempts; a call that
\* has raised saw every attempt fail; and once an attempt has succeeded the operation
\* is not invoked again in that call.
C24_SuccessAfterTransientFailures ==
    /\ [](wr.pc = "returned" =>
             /\ wr.value = [tag |-> "value", by |-> wr.fnCalls]
             /\ Len(wr.raised) = wr.fnCalls - 1
             /\ Len(wr.raised) <= wr.config.maxRetries
             /\ AllTransient(wr.raised))
    /\ [](wr.pc = "thrown" => Len(wr.raised) = wr.fnCalls)
    /\ [][(wr.value # NoValue /\ wr'.pc # "idle") =>
             (wr'.fnCalls = wr.fnCalls /\ wr'.pc = "returned")]_vars

C24_Witness ==
    /\ wr.pc = "returned"
    /\ wr.config = DEFAULT_RETRY_CONFIG
    /\ wr.raised = <<Error(Message.econnrefused, 1), Error(Message.http503, 2)>>
    /\ wr.fnCalls = 3
    /\ wr.value = [tag |-> "value", by |-> 3]

\* C25: the error a withRetry call raises is the error object its last attempt
\* raised, itself and not a wrapper, whatever the earlier attempts raised and whether
\* the call stopped on a fatal error or ran out of retries.
C25_LastErrorPropagated ==
    wr.pc = "thrown" =>
        /\ Len(wr.raised) = wr.fnCalls
        /\ wr.thrown = wr.raised[Len(wr.raised)]
        /\ wr.thrown.raisedBy = wr.fnCalls
        /\ ~wr.thrown.wraps

C25_Witness ==
    /\ wr.pc = "thrown"
    /\ wr.config = DEFAULT_RETRY_CONFIG
    /\ wr.raised = <<Error(Message.econnrefused, 1), Error(Message.http503, 2),
                     Error(Message.unauthorized, 3)>>
    /\ wr.thrown = Error(Message.unauthorized, 3)

\* C30: under every policy with maxRetries >= 0 and whatever the attempts do, the
\* attempt index of a withRetry call is within 0..maxRetries, the operation has been
\* invoked at most maxRetries + 1 times, and every failure that another attempt or a
\* suspension followed was a transient one.
C30_AttemptIndexBounded ==
    /\ wr.config.maxRetries >= 0
    /\ wr.attempt \in 0..wr.config.maxRetries
    /\ wr.fnCalls <= wr.config.maxRetries + 1
    /\ wr.pc # "idle" => wr.fnCalls = wr.attempt + 1
    /\ \A k \in 1..Len(wr.raised) :
          (k < wr.fnCalls \/ wr.pc = "sleeping") => isTransientError(wr.raised[k])

C30_Witness ==
    /\ wr.pc = "thrown"
    /\ wr.config.maxRetries = 2
    /\ wr.attempt = 2
    /\ wr.fnCalls = 3
    /\ wr.raised = <<Error(Message.http503, 1), Error(Message.http503, 2),
                     Error(Message.http503, 3)>>

\* C31: when every invocation of the operation settles and every suspension ends, a
\* withRetry call that is running or suspended ends by returning a value or raising
\* an error, also when every attempt fails with a transient error.
C31_WithRetryTerminates ==
    (wr.pc \in {"running", "sleeping"}) ~> (wr.pc \in {"returned", "thrown"})

C31_Witness ==
    /\ wr.pc = "thrown"
    /\ wr.config.maxRetries = 2
    /\ caller.calls = 2
    /\ wr.fnCalls = 3
    /\ Len(wr.sleeps) = 2
    /\ AllTransient(wr.raised)

(***************************************************************************)
(* Pure functions applied to drawn inputs                                  *)
(***************************************************************************)
\* The substrings the classifier's contract lists (spec 4.1).
TransientSubstrings ==
    {Pattern.econnrefused, Pattern.econnreset, Pattern.etimedout, Pattern.enotfound, Pattern.epipe, Pattern.network,
     Pattern.connection, Pattern.timeout, Pattern.s429, Pattern.s502, Pattern.s503, Pattern.s504}

\* Messages given to the classifier: a listed substring in lower case, in upper
\* case or capitalised, or a text that holds none of them, between a prefix and
\* a suffix.
ClassifierCalls ==
    LET NearMisses ==
            {<<>>, Message.unauthorized,
             <<"e","c","o","n","n","r","e","f","u","s","e">>,
             <<"t","i","m","e"," ","o","u","t">>,
             <<"t","i","m","e","d"," ","o","u","t">>,
             <<"n","e","t"," ","w","o","r","k">>,
             <<"N","o","t"," ","c","o","n","n","e","c","t","e","d">>,
             <<"5","0","0">>, <<"5","0"," ","2">>, <<"4","0","4">>, <<"4","2","8">>,
             <<"p","i","p","e">>}
        MessageCores ==
            TransientSubstrings \cup {UpperCased(m) : m \in TransientSubstrings}
                \cup {Capitalised(m) : m \in TransientSubstrings} \cup NearMisses
        MessagePrefixes == {<<>>, <<"H","T","T","P"," ">>, <<"e">>}
        MessageSuffixes == {<<>>, <<":"," ","x">>}
    IN  {[fn |-> "isTransientError", error |-> Error(p \o c \o s, 1)] :
            p \in MessagePrefixes, c \in MessageCores, s \in MessageSuffixes}

DelayCalls ==
    {[fn |-> "calculateDelay", attempt |-> a, config |-> c, random |-> r] :
        a \in 0..MaxAttemptIdx, c \in Policies, r \in RandomDraws(JitterSteps)}

EnvKeys == {"A", "B"}

\* createStdioTransport on local descriptors without env and with every env over
\* EnvKeys, under process.env values where some names are unset, some undefined
\* and some empty.
TransportCalls ==
    LET AmbientEnvs == UNION {[S -> {<<>>, <<"1">>, <<"">>}] : S \in SUBSET EnvKeys}
        LocalDescriptors ==
            {Desc.stdio} \cup
            {Descriptor(TRUE, FALSE, <<>>, TRUE, e) :
                e \in UNION {[S -> {<<"2">>, <<"3">>}] : S \in SUBSET EnvKeys}}
    IN  {[fn |-> "createStdioTransport", config |-> d, env |-> e] :
            d \in LocalDescriptors, e \in AmbientEnvs}

\* Paths given with -c and with MCP_CONFIG_PATH.
Path ==
    [ cli |-> <<"/","c",".","j","s","o","n">>,
      relative |-> <<"r",".","j","s","o","n">>,
      env |-> <<"/","e",".","j","s","o","n">> ]

\* The paths a run can look at.
ConfigPaths ==
    {resolve(Path.cli), resolve(Path.relative), resolve(Path.env)}
        \cup {getDefaultConfigPaths[k] : k \in 1..Len(getDefaultConfigPaths)}

\* loadConfig with -c and MCP_CONFIG_PATH each undefined, "", or a path, on file
\* systems where any of the paths a run can look at exist, holding documents of
\* one kind.
LoadCalls ==
    LET DocumentKinds ==
            {"config", "arrayField", "otherField", "nullField", "stringField", "null", "number", "notJson"}
        ExplicitPaths == {<<>>, <<<<>>>>, <<Path.cli>>, <<Path.relative>>}
        EnvPaths == {<<>>, <<<<>>>>, <<Path.env>>}
        FileSystems ==
            {[path \in existing |-> [kind |-> kind, file |-> path]] :
                existing \in SUBSET ConfigPaths, kind \in DocumentKinds}
    IN  {[fn |-> "loadConfig", explicitPath |-> e, envPath |-> v, files |-> f] :
            e \in ExplicitPaths, v \in EnvPaths, f \in FileSystems}

\* The type guards on descriptor objects with any of the fields command, url, args,
\* env, cwd and headers.
GuardCalls ==
    {[fn |-> "typeGuards",
      config |-> [hasCommand |-> c, hasUrl |-> u, url |-> IF u THEN Url.valid ELSE <<>>,
                  hasEnv |-> e, env |-> EmptyEnv, hasArgs |-> a, hasCwd |-> w,
                  hasHeaders |-> h]] :
        c \in BOOLEAN, u \in BOOLEAN, e \in BOOLEAN, a \in BOOLEAN, w \in BOOLEAN,
        h \in BOOLEAN}

PureCalls == ClassifierCalls \cup DelayCalls \cup TransportCalls \cup LoadCalls \cup GuardCalls

PureInit ==
    /\ call \in PureCalls
    /\ ret = NoRet
    /\ MCP_DEBUG = <<>>
    /\ processEnv = AmbientEnv
    /\ mcpServers = <<>>
    /\ wr = IdleFrame
    /\ cl = IdleClient
    /\ caller = [pc |-> "pure", calls |-> 0]

Apply_isTransientError ==
    /\ call.fn = "isTransientError"
    /\ ~ret.done
    /\ ret' = [done |-> TRUE, value |-> isTransientError(call.error)]
    /\ UNCHANGED <<call, envVars, wr, cl, caller>>

Apply_calculateDelay ==
    /\ call.fn = "calculateDelay"
    /\ ~ret.done
    /\ ret' = [done |-> TRUE, value |-> calculateDelay(call.attempt, call.config, call.random)]
    /\ UNCHANGED <<call, envVars, wr, cl, caller>>

Apply_createStdioTransport ==
    /\ call.fn = "createStdioTransport"
    /\ ~ret.done
    /\ ret' = [done |-> TRUE, value |-> createStdioTransport(call.config, call.env)]
    /\ UNCHANGED <<call, envVars, wr, cl, caller>>

Apply_loadConfig ==
    /\ call.fn = "loadConfig"
    /\ ~ret.done
    /\ ret' = [done |-> TRUE,
               value |-> loadConfig(call.explicitPath, processEnv, call.envPath, call.files)]
    /\ UNCHANGED <<call, envVars, wr, cl, caller>>

\* Both guards applied to one descriptor.
Apply_typeGuards ==
    /\ call.fn = "typeGuards"
    /\ ~ret.done
    /\ ret' = [done |-> TRUE,
               value |-> [isHttpServer |-> isHttpServer(call.config),
                          isStdioServer |-> isStdioServer(call.config)]]
    /\ UNCHANGED <<call, envVars, wr, cl, caller>>

PureNext ==
    \/ Apply_isTransientError \/ Apply_calculateDelay \/ Apply_createStdioTransport
    \/ Apply_loadConfig \/ Apply_typeGuards

SpecPure == PureInit /\ [][PureNext]_vars

\* a and b are the same character up to letter case.
SameLetter(a, b) == toLowerCaseChar(a) = toLowerCaseChar(b)

ContainsIgnoringCase(s, sub) ==
    \E i \in 0..(Len(s) - Len(sub)) : \A j \in 1..Len(sub) : SameLetter(s[i + j], sub[j])

\* C3: the classifier answers transient exactly for the messages that hold, letter
\* case ignored, one of the listed substrings, and fatal for every other message.
C3_Classifier ==
    (call.fn = "isTransientError" /\ ret.done) =>
        (ret.value <=> \E m \in TransientSubstrings : ContainsIgnoringCase(call.error.message, m))

C3_Witness ==
    /\ call.fn = "isTransientError"
    /\ ret.done
    /\ ret.value
    /\ call.error.message = <<"H","T","T","P"," ">> \o UpperCased(Pattern.s429) \o <<":"," ","x">>

\* C4 as amended: for every attempt and jitter draw the delay is at least 0 and at
\* most maxDelayMs * 1.25 rounded to the nearest millisecond.
C4_DelayWithinRoundedBound ==
    (call.fn = "calculateDelay" /\ ret.done) =>
        /\ 0 <= ret.value
        /\ ret.value <= MathRound(5 * call.config.maxDelayMs, 4)

\* C4 as stated: 0 <= delay <= maxDelayMs * 1.25.
C4_DelayWithinBound ==
    (call.fn = "calculateDelay" /\ ret.done) =>
        /\ 0 <= ret.value
        /\ 4 * ret.value <= 5 * call.config.maxDelayMs

C4_Witness ==
    /\ call.fn = "calculateDelay"
    /\ ret.done
    /\ call.config = DEFAULT_RETRY_CONFIG
    /\ call.attempt = 4
    /\ ret.value = 11875

\* C19: the configuration loaded is the one of the first source that applies, in the
\* order MCP_CONFIG_PATH, the -c argument, ./mcp_servers.json, ~/.mcp_servers.json,
\* ~/.config/mcp/mcp_servers.json; with both MCP_CONFIG_PATH and -c given it is the
\* one MCP_CONFIG_PATH names.
C19_ConfigResolutionOrder ==
    (call.fn = "loadConfig" /\ ret.done /\ ret.value.ok) =>
        ret.value.value.file =
            IF Given(call.envPath) THEN resolve(call.envPath[1])
            ELSE IF Given(call.explicitPath) THEN resolve(call.explicitPath[1])
            ELSE firstExisting(call.files, getDefaultConfigPaths)[1]

C21_ExactlyOneVariant ==
    (call.fn = "typeGuards" /\ ret.done) =>
        /\ (call.config.hasUrl /\ ~call.config.hasCommand) =>
              (ret.value.isHttpServer /\ ~ret.value.isStdioServer)
        /\ (call.config.hasCommand /\ ~call.config.hasUrl) =>
              (ret.value.isStdioServer /\ ~ret.value.isHttpServer)

C21_Witness ==
    /\ call.fn = "typeGuards"
    /\ ret.done
    /\ call.config.hasCommand
    /\ ~call.config.hasUrl
    /\ ~call.config.hasArgs
    /\ call.config.hasEnv
    /\ call.config.hasHeaders
    /\ ret.value = [isHttpServer |-> FALSE, isStdioServer |-> TRUE]

(***************************************************************************)
(* A caller of client.ts: connectToServer, then listTools, getTool and     *)
(* close in any order and number                                           *)
(***************************************************************************)

ApiCaller ==
    [pc |-> "ready", op |-> "none", ops |-> 0, toolName |-> "", result |-> NoValue,
     caught |-> NoError, opsBefore |-> 0, closeCalls |-> 0]

Init ==
    /\ call = NoCall
    /\ ret = NoRet
    /\ MCP_DEBUG \in {<<>>, <<"1">>}
    /\ processEnv = AmbientEnv
    /\ mcpServers \in {<<[name |-> n, descriptor |-> d]>> : n \in {Name.a, Name.b}, d \in Descriptors}
    /\ wr = IdleFrame
    /\ cl = IdleClient
    /\ caller = ApiCaller

ApiConnect ==
    /\ caller.pc = "ready"
    /\ caller.ops < MaxOps
    /\ cl.sess = "Unconnected"
    /\ LET serverName == listServerNames(mcpServers)[1]
       IN  connectToServerCall(serverName, getServerConfig(mcpServers, serverName).value)
    /\ caller' = [caller EXCEPT !.pc = "connectToServer", !.op = "connectToServer", !.ops = @ + 1,
                                !.result = NoValue, !.caught = NoError]
    /\ UNCHANGED <<pureVars, envVars>>

ApiConnectResumes ==
    /\ caller.pc = "connectToServer"
    /\ connectToServerReturns
    /\ caller' = [caller EXCEPT !.pc = "ready",
                                !.result = IF wr.pc = "returned" THEN wr.value ELSE NoValue,
                                !.caught = IF wr.pc = "thrown" THEN wr.thrown ELSE NoError]
    /\ UNCHANGED <<pureVars, envVars>>

ApiListTools ==
    /\ caller.pc = "ready"
    /\ caller.ops < MaxOps
    /\ cl.session # 0
    /\ listToolsCall
    /\ caller' = [caller EXCEPT !.pc = "listTools", !.op = "listTools", !.ops = @ + 1,
                                !.result = NoValue, !.caught = NoError]
    /\ UNCHANGED <<pureVars, envVars>>

ApiListToolsResumes ==
    /\ caller.pc = "listTools"
    /\ wr.kind = "list tools"
    /\ wr.pc \in {"returned", "thrown"}
    /\ caller' = [caller EXCEPT !.pc = "ready",
                                !.result = IF wr.pc = "returned" THEN wr.value ELSE NoValue,
                                !.caught = IF wr.pc = "thrown" THEN wr.thrown ELSE NoError]
    /\ wr' = IdleFrame
    /\ UNCHANGED <<pureVars, envVars, cl>>

\* Lines 225-229: getTool calls listTools.
ApiGetTool ==
    /\ caller.pc = "ready"
    /\ caller.ops < MaxOps
    /\ cl.session # 0
    /\ listToolsCall
    /\ \E toolName \in {"read", "Read", "absent"} :
          caller' = [caller EXCEPT !.pc = "getTool", !.op = "getTool", !.ops = @ + 1,
                                   !.toolName = toolName, !.opsBefore = cl.listToolsOps,
                                   !.result = NoValue, !.caught = NoError]
    /\ UNCHANGED <<pureVars, envVars>>

\* Lines 229-230: listTools returned and find answers, or listTools raised.
ApiGetToolResumes ==
    /\ caller.pc = "getTool"
    /\ wr.kind = "list tools"
    /\ wr.pc \in {"returned", "thrown"}
    /\ caller' = [caller EXCEPT !.pc = "gotTool",
                                !.result = IF wr.pc = "returned"
                                           THEN find(wr.value.tools, caller.toolName)
                                           ELSE NoValue,
                                !.caught = IF wr.pc = "thrown" THEN wr.thrown ELSE NoError]
    /\ wr' = IdleFrame
    /\ UNCHANGED <<pureVars, envVars, cl>>

\* The caller has looked at what getTool gave.
ApiGetToolDone ==
    /\ caller.pc = "gotTool"
    /\ caller' = [caller EXCEPT !.pc = "ready"]
    /\ UNCHANGED <<pureVars, envVars, wr, cl>>

ApiCallTool ==
    /\ caller.pc = "ready"
    /\ caller.ops < MaxOps
    /\ cl.session # 0
    /\ callToolCall("read")
    /\ caller' = [caller EXCEPT !.pc = "callTool", !.op = "callTool", !.ops = @ + 1,
                                !.result = NoValue, !.caught = NoError]
    /\ UNCHANGED <<pureVars, envVars, cl>>

ApiCallToolResumes ==
    /\ caller.pc = "callTool"
    /\ wr.kind = "call tool"
    /\ wr.pc \in {"returned", "thrown"}
    /\ caller' = [caller EXCEPT !.pc = "ready",
                                !.result = IF wr.pc = "returned" THEN wr.value ELSE NoValue,
                                !.caught = IF wr.pc = "thrown" THEN wr.thrown ELSE NoError]
    /\ wr' = IdleFrame
    /\ UNCHANGED <<pureVars, envVars, cl>>

ApiClose ==
    /\ caller.pc = "ready"
    /\ caller.ops < MaxOps
    /\ closeCall
    /\ caller' = [caller EXCEPT !.pc = "close", !.op = "close", !.ops = @ + 1, !.closeCalls = @ + 1,
                                !.result = NoValue, !.caught = NoError]
    /\ UNCHANGED <<pureVars, envVars, wr>>

ApiCloseResumes ==
    /\ caller.pc = "close"
    /\ closeSettles
    /\ \E outcome \in CloseOutcomes :
          caller' = [caller EXCEPT !.pc = "ready", !.caught = outcome.error]
    /\ UNCHANGED <<pureVars, envVars, wr>>

Next ==
    \/ ApiConnect \/ ConnectSettles \/ withRetryWake \/ ApiConnectResumes
    \/ ApiListTools \/ ListToolsSettles \/ ApiListToolsResumes
    \/ ApiGetTool \/ ApiGetToolResumes \/ ApiGetToolDone
    \/ ApiCallTool \/ CallToolSettles \/ ApiCallToolResumes
    \/ ApiClose \/ ApiCloseResumes

Spec == Init /\ [][Next]_vars

\* C6: calling close twice releases the underlying client once (the second call
\* issues no second client.close()) and the second call does not raise.
C6_CloseIdempotent ==
    caller.closeCalls >= 2 =>
        /\ cl.releases = 1
        /\ (caller.op = "close" /\ caller.pc = "ready") => caller.caught = NoError

\* C7: no transport is ever built from a descriptor that has both a command and a
\* url field, or neither.
C7_InvalidDescriptorRejected ==
    \A i \in 1..Len(cl.transports) :
        cl.transports[i].config.hasCommand # cl.transports[i].config.hasUrl

\* C8: the session moves only along Unconnected -> Connecting, Connecting -> Open,
\* Connecting -> Unconnected and Open -> Closed; nothing leaves Closed.
C8_SessionTransitions ==
    [][cl.sess' # cl.sess =>
          <<cl.sess, cl.sess'>> \in {<<"Unconnected", "Connecting">>, <<"Connecting", "Open">>,
                                     <<"Connecting", "Unconnected">>, <<"Open", "Closed">>}]_vars

C8_Witness ==
    /\ cl.sess = "Closed"
    /\ cl.clients = 3
    /\ caller.caught # NoError
    /\ caller.op = "listTools"

\* C9: when getTool returns, it returns the tool descriptor of the session's server
\* whose name is exactly the requested name, and undefined when no tool has that name,
\* and exactly one listTools operation was started since getTool was called.
C9_GetTool ==
    (caller.pc = "gotTool" /\ caller.caught = NoError) =>
        LET tools == ServerTools(cl.server)
            named == {i \in 1..Len(tools) : tools[i].name = caller.toolName}
        IN  /\ named # {} =>
                  /\ caller.result.tag = "tool"
                  /\ caller.result.tool.name = caller.toolName
                  /\ \E i \in named : caller.result.tool = toToolInfo(tools[i])
            /\ named = {} => caller.result = Undefined
            /\ cl.listToolsOps = caller.opsBefore + 1

C9_Witness ==
    /\ caller.pc = "gotTool"
    /\ caller.caught = NoError
    /\ cl.server = Name.b
    /\ caller.toolName = "read"
    /\ caller.result.tag = "tool"
    /\ caller.result.tool.inputSchema = "S4"

\* C10: the environment of a local transport holds every descriptor entry, every
\* ambient entry with a defined value whose name the descriptor does not set, and
\* nothing else: the descriptor wins a collision and undefined ambient values are absent.
C10_EnvMerge ==
    (call.fn = "createStdioTransport" /\ ret.done) =>
        LET merged == ret.value.env
            ambient == call.env
            overlay == IF call.config.hasEnv THEN call.config.env ELSE EmptyEnv
        IN  /\ DOMAIN merged \subseteq EnvKeys
            /\ \A k \in EnvKeys :
                  /\ k \in DOMAIN overlay => (k \in DOMAIN merged /\ merged[k] = overlay[k])
                  /\ (k \notin DOMAIN overlay /\ k \in DOMAIN ambient /\ ambient[k] # <<>>) =>
                        (k \in DOMAIN merged /\ merged[k] = ambient[k])
                  /\ (k \notin DOMAIN overlay /\ (k \notin DOMAIN ambient \/ ambient[k] = <<>>)) =>
                        k \notin DOMAIN merged

C10_Witness ==
    /\ call.fn = "createStdioTransport"
    /\ ret.done
    /\ call.env = [k \in {"A"} |-> <<"1">>]
    /\ call.config.hasEnv
    /\ call.config.env = [k \in {"A", "B"} |-> IF k = "A" THEN <<"2">> ELSE <<"3">>]
    /\ ret.value.env = [k \in {"A", "B"} |-> IF k = "A" THEN <<"2">> ELSE <<"3">>]

\* C11: the error with which connectToServer gives up carries the server name and
\* the message of the last underlying error.
C11_ConnectErrorCarriesServerName ==
    (wr.kind = "connect" /\ wr.pc = "thrown") =>
        /\ includes(wr.thrown.message, cl.server)
        /\ includes(wr.thrown.message, wr.lastError.message)

\* C12: a connect with a remote descriptor whose URL is malformed makes exactly one
\* attempt and no backoff suspension, whatever the URL text or the error message holds.
C12_MalformedUrlNeverRetried ==
    (wr.kind = "connect" /\ isHttpServer(cl.config) /\ ~URLParses(cl.config.url)) =>
        /\ wr.pc \in {"running", "thrown"}
        /\ wr.fnCalls = 1
        /\ wr.sleeps = <<>>

\* C23: no step of connectToServer, of the transport construction, of listTools, of
\* callTool or of withRetry changes process.env, the configuration, the descriptor
\* the session was opened with (its env mapping included) or the policy of the call
\* in progress; a call starts with attempt 0 and no last error, and nothing of its
\* frame is left once it is over.
C23_NothingMutated ==
    [][/\ processEnv' = processEnv
       /\ mcpServers' = mcpServers
       /\ (wr.pc # "idle" /\ wr'.pc # "idle") => wr'.config = wr.config
       /\ (wr.pc = "idle" /\ wr'.pc # "idle") =>
             /\ wr'.config = DEFAULT_RETRY_CONFIG
             /\ wr'.attempt = 0
             /\ wr'.lastError = NoError
       /\ wr'.pc = "idle" => wr' = IdleFrame
       /\ cl.sess # "Unconnected" => cl'.config = cl.config
       /\ cl'.sess # "Unconnected" =>
             cl'.config = getServerConfig(mcpServers', cl'.server).value]_vars

C23_Witness ==
    /\ caller.op = "callTool"
    /\ caller.pc = "ready"
    /\ caller.result = [tag |-> "result", by |-> 2]
    /\ cl.config = Desc.stdioEnv
    /\ cl.clients = 2
    /\ Len(cl.transports) = 2
    /\ cl.transports[2].env = [k \in {"A", "B"} |-> IF k = "A" THEN <<"2">> ELSE <<"3">>]
    /\ processEnv = AmbientEnv

\* C26: every connectToServer, listTools and callTool call starts at attempt 0 with
\* nothing raised and no suspension behind it, under the default policy, whatever
\* the operations before it used; it gives up on a transient error only after
\* maxRetries + 1 attempts of its own.
C26_IndependentBudgets ==
    /\ [][(wr.pc = "idle" /\ wr'.pc # "idle") =>
             /\ wr'.kind \in {"connect", "list tools", "call tool"}
             /\ wr'.attempt = 0
             /\ wr'.fnCalls = 1
             /\ wr'.raised = <<>>
             /\ wr'.sleeps = <<>>
             /\ wr'.config = DEFAULT_RETRY_CONFIG]_vars
    /\ [](wr.pc # "idle" => wr.fnCalls = wr.attempt + 1)
    /\ []((wr.pc = "thrown" /\ isTransientError(wr.thrown)) =>
             wr.fnCalls = wr.config.maxRetries + 1)

C26_Witness ==
    /\ cl.clients = 4
    /\ cl.sess = "Open"
    /\ wr.kind = "call tool"
    /\ wr.pc = "thrown"
    /\ wr.fnCalls = 4
    /\ Len(wr.sleeps) = 3
    /\ caller.ops = 3

\* C32: every attempt of a connect constructs a client of its own, so the clients
\* constructed are as many as the attempts made; every transport handle built belongs
\* to the client of its own attempt and the handles of earlier attempts stay as they
\* were; the returned session holds the client and the handle of the last, successful
\* attempt, and close is issued only on a session that a successful attempt returned.
C32_FreshClientAndTransportPerAttempt ==
    /\ [](wr.kind = "connect" =>
             /\ cl.clients = Len(wr.raised) + (IF wr.pc = "returned" THEN 1 ELSE 0)
             /\ wr.pc = "returned" => (wr.value.client = wr.fnCalls /\ wr.value.client = cl.clients))
    /\ [](\A i \in 1..Len(cl.transports) :
             /\ cl.transports[i].client \in 1..cl.clients
             /\ \A j \in 1..(i - 1) : cl.transports[j].client < cl.transports[i].client)
    /\ [](cl.session # 0 =>
             /\ cl.session = cl.clients
             /\ cl.transports # <<>>
             /\ cl.transports[Len(cl.transports)].client = cl.session
             /\ \A i \in 1..(Len(cl.transports) - 1) : cl.transports[i].client # cl.session)
    /\ [](cl.releases > 0 => cl.session # 0)
    /\ [][(wr.kind = "connect" /\ wr.pc = "running" /\ wr'.pc # "running") =>
             /\ cl.clients' = cl.clients + 1
             /\ \/ cl.transports' = cl.transports
                \/ /\ Len(cl.transports') = Len(cl.transports) + 1
                   /\ SubSeq(cl.transports', 1, Len(cl.transports)) = cl.transports
                   /\ cl.transports'[Len(cl.transports')].client = cl.clients']_vars

C32_Witness ==
    /\ cl.sess = "Closed"
    /\ cl.session = 3
    /\ cl.clients = 3
    /\ Len(cl.transports) = 3
    /\ cl.releases = 1
    /\ caller.op = "close"

ConfigFiles ==
    LET ServerNames == {Name.a, Name.n9, Name.n10}
        DescriptorOf(serverName) ==
            IF serverName = Name.a THEN Desc.stdio
            ELSE IF serverName = Name.b THEN Desc.stdioEnv
            ELSE Desc.http
    IN
    {[i \in 1..Len(names) |-> [name |-> names[i], descriptor |-> DescriptorOf(names[i])]] :
        names \in {ns \in UNION {[1..n -> ServerNames] : n \in 0..MaxServers} :
                      \A i, j \in 1..Len(ns) : i # j => ns[i] # ns[j]}}

\* fate: what happened to each server handled so far, for the statements below.
ListCaller ==
    [cmd |-> "list", pc |-> "loop", serverNames |-> <<>>, i |-> 1, servers |-> <<>>, pending |-> NoError,
     fate |-> <<>>]

ListInit ==
    /\ call = NoCall
    /\ ret = NoRet
    /\ MCP_DEBUG \in {<<>>, <<"1">>}
    /\ processEnv = AmbientEnv
    /\ mcpServers \in ConfigFiles
    /\ wr = IdleFrame
    /\ cl = IdleClient
    /\ caller = [ListCaller EXCEPT !.serverNames = listServerNames(mcpServers)]

\* Lines 55-64: the entry pushed for a server that failed.
errorEntry(serverName, error) ==
    [name |-> serverName,
     tools |-> <<[name |-> <<"<error: ", error.message, ">">>, description |-> <<>>,
                  inputSchema |-> "{}"]>>]

\* Lines 53-65: the catch block, then the next iteration.
listCatch(error, fate) ==
    [caller EXCEPT !.pc = "loop", !.i = @ + 1, !.pending = NoError,
                   !.servers = Append(@, errorEntry(caller.serverNames[caller.i], error)),
                   !.fate = Append(@, fate)]

\* Lines 42-45: the next server name, its descriptor, connectToServer.
ListConnect ==
    /\ caller.pc = "loop"
    /\ caller.i <= Len(caller.serverNames)
    /\ caller.cmd = "list"
    /\ LET serverName == caller.serverNames[caller.i]
           serverConfig == getServerConfig(mcpServers, serverName)
       IN  IF serverConfig.ok
           THEN /\ connectToServerCall(serverName, serverConfig.value)
                /\ caller' = [caller EXCEPT !.pc = "connectToServer"]
           ELSE /\ caller' = listCatch(serverConfig.error, "notFound")
                /\ UNCHANGED <<wr, cl>>
    /\ UNCHANGED <<pureVars, envVars>>

\* Line 45 resumes with the session, or the error lands in the catch block.
ListConnectResumes ==
    /\ caller.cmd = "list"
    /\ caller.pc = "connectToServer"
    /\ connectToServerReturns
    /\ caller' = IF wr.pc = "returned"
                 THEN [caller EXCEPT !.pc = "callListTools"]
                 ELSE listCatch(wr.thrown, "unreachable")
    /\ UNCHANGED <<pureVars, envVars>>

\* listTools(client) called without await.
ListListTools_notAwaited ==
    /\ caller.cmd = "list"
    /\ caller.pc = "callListTools"
    /\ listToolsCall
    /\ caller' = [caller EXCEPT !.pc = "callClose"]
    /\ UNCHANGED <<pureVars, envVars>>

\* Line 48.
ListListTools ==
    /\ caller.cmd = "list"
    /\ caller.pc = "callListTools"
    /\ listToolsCall
    /\ caller' = [caller EXCEPT !.pc = "listTools"]
    /\ UNCHANGED <<pureVars, envVars>>

\* close() called after listTools without a finally block.
ListListToolsResumes_noFinally ==
    /\ caller.cmd = "list"
    /\ caller.pc = "listTools"
    /\ wr.kind = "list tools"
    /\ wr.pc \in {"returned", "thrown"}
    /\ caller' = IF wr.pc = "returned"
                 THEN [caller EXCEPT !.pc = "callClose",
                                     !.servers = Append(@, [name |-> caller.serverNames[caller.i],
                                                            tools |-> wr.value.tools])]
                 ELSE listCatch(wr.thrown, "listFailed")
    /\ wr' = IdleFrame
    /\ UNCHANGED <<pureVars, envVars, cl>>

\* Lines 48-51: the tools are pushed, or the error waits for the finally block.
ListListToolsResumes ==
    /\ caller.cmd = "list"
    /\ caller.pc = "listTools"
    /\ wr.kind = "list tools"
    /\ wr.pc \in {"returned", "thrown"}
    /\ caller' = IF wr.pc = "returned"
                 THEN [caller EXCEPT !.pc = "callClose",
                                     !.servers = Append(@, [name |-> caller.serverNames[caller.i],
                                                            tools |-> wr.value.tools])]
                 ELSE [caller EXCEPT !.pc = "callClose", !.pending = wr.thrown]
    /\ wr' = IdleFrame
    /\ UNCHANGED <<pureVars, envVars, cl>>

\* Line 51.
ListClose ==
    /\ caller.cmd = "list"
    /\ caller.pc = "callClose"
    /\ closeCall
    /\ caller' = [caller EXCEPT !.pc = "close"]
    /\ UNCHANGED <<pureVars, envVars, wr>>

\* Lines 51-53: close() settles; an error of close, or else the pending error of
\* listTools, lands in the catch block.
ListCloseResumes ==
    /\ caller.cmd = "list"
    /\ caller.pc = "close"
    /\ closeSettles
    /\ \E outcome \in CloseOutcomes :
          caller' = IF ~outcome.ok THEN listCatch(outcome.error, "closeFailed")
                    ELSE IF caller.pending # NoError THEN listCatch(caller.pending, "listFailed")
                    ELSE [caller EXCEPT !.pc = "loop", !.i = @ + 1, !.fate = Append(@, "served")]
    /\ UNCHANGED <<pureVars, envVars, wr>>

\* Lines 68-80: the loop is over and the servers are printed.
ListOutput ==
    /\ caller.cmd = "list"
    /\ caller.pc = "loop"
    /\ caller.i > Len(caller.serverNames)
    /\ caller' = [caller EXCEPT !.pc = "done"]
    /\ UNCHANGED <<pureVars, envVars, wr, cl>>

ListNext ==
    \/ ListConnect \/ ConnectSettles \/ withRetryWake \/ ListConnectResumes
    \/ ListListTools \/ ListToolsSettles \/ ListListToolsResumes
    \/ ListClose \/ ListCloseResumes \/ ListOutput

SpecList == ListInit /\ [][ListNext]_vars

IsErrorEntry(entry) == Len(entry.tools) = 1 /\ entry.tools[1].inputSchema = "{}"

RealTools(serverName) ==
    [i \in 1..Len(ServerTools(serverName)) |-> toToolInfo(ServerTools(serverName)[i])]

\* C5: when every configured server was either unreachable or served its tools, the
\* list holds one entry per configured server in the order of the configuration file:
\* an error entry for an unreachable server, the real tool list for each other one.
C5_ListInConfigurationOrder ==
    (caller.pc = "done" /\ \A k \in 1..Len(caller.fate) : caller.fate[k] \in {"unreachable", "served"}) =>
        /\ Len(caller.servers) = Len(mcpServers)
        /\ \A k \in 1..Len(caller.servers) :
              /\ caller.servers[k].name = mcpServers[k].name
              /\ caller.fate[k] = "unreachable" => IsErrorEntry(caller.servers[k])
              /\ caller.fate[k] = "served" =>
                    /\ ~IsErrorEntry(caller.servers[k])
                    /\ caller.servers[k].tools = RealTools(caller.servers[k].name)

(***************************************************************************)
(* commands/grep.ts: grepCommand (42-105), after loadConfig                *)
(***************************************************************************)
\* The characters of the tool names and descriptions the servers of the model serve.
Text(string) ==
    CASE string = "read" -> <<"r","e","a","d">>
      [] string = "Read" -> <<"R","e","a","d">>
      [] string = "write" -> <<"w","r","i","t","e">>
      [] string = "list" -> <<"l","i","s","t">>
      [] string = "reads a file" -> <<"r","e","a","d","s"," ","a"," ","f","i","l","e">>
      [] string = "reads" -> <<"r","e","a","d","s">>
      [] string = "absent" -> <<"a","b","s","e","n","t">>
      [] OTHER -> <<>>

\* Lines 30-37: the pattern as the regular expression ^...$ with flag i, where * is
\* .* and ? is . and every other character stands for itself.
RECURSIVE GlobTest(_, _)
GlobTest(pattern, text) ==
    IF Len(pattern) = 0 THEN Len(text) = 0
    ELSE IF pattern[1] = "*"
    THEN \E k \in 0..Len(text) : GlobTest(Tail(pattern), SubSeq(text, k + 1, Len(text)))
    ELSE /\ Len(text) > 0
         /\ (pattern[1] = "?" \/ toLowerCaseChar(pattern[1]) = toLowerCaseChar(text[1]))
         /\ GlobTest(Tail(pattern), Tail(text))

\* Patterns given to grep.
Glob ==
    [ all |-> <<"*">>,
      read |-> <<"r","e","a","d">>,
      path |-> <<"a","/","*">> ]
Patterns == {Glob.all, Glob.read, Glob.path}

\* Lines 65-72.
Matches(pattern, serverName, tool) ==
    LET fullPath == serverName \o <<"/">> \o Text(tool.name)
        matchesName == GlobTest(pattern, Text(tool.name))
        matchesPath == GlobTest(pattern, fullPath)
        matchesDescription ==
            /\ tool.description # <<>>
            /\ tool.description[1] # ""
            /\ GlobTest(pattern, Text(tool.description[1]))
    IN  matchesName \/ matchesPath \/ matchesDescription

\* Lines 64-75: the results of one server, in the order of its tools.
matched(pattern, serverName, tools) ==
    LET hits == SelectSeq(tools, LAMBDA tool : Matches(pattern, serverName, tool))
    IN  [k \in 1..Len(hits) |-> [server |-> serverName, tool |-> hits[k]]]

GrepCaller ==
    [cmd |-> "grep", pc |-> "loop", serverNames |-> <<>>, i |-> 1, results |-> <<>>,
     pending |-> NoError, pattern |-> Glob.all, warnings |-> <<>>, fate |-> <<>>]

\* Lines 79-86: the catch block, then the next iteration.
grepCatch(error, fate) ==
    [caller EXCEPT !.pc = "loop", !.i = @ + 1, !.pending = NoError,
                   !.warnings = IF Truthy(MCP_DEBUG)
                                THEN Append(@, [server |-> caller.serverNames[caller.i],
                                                message |-> error.message])
                                ELSE @,
                   !.fate = Append(@, fate)]

\* Lines 56-59.
GrepConnect ==
    /\ caller.cmd = "grep"
    /\ caller.pc = "loop"
    /\ caller.i <= Len(caller.serverNames)
    /\ LET serverName == caller.serverNames[caller.i]
           serverConfig == getServerConfig(mcpServers, serverName)
       IN  IF serverConfig.ok
           THEN /\ connectToServerCall(serverName, serverConfig.value)
                /\ caller' = [caller EXCEPT !.pc = "connectToServer"]
           ELSE /\ caller' = grepCatch(serverConfig.error, "notFound")
                /\ UNCHANGED <<wr, cl>>
    /\ UNCHANGED <<pureVars, envVars>>

GrepConnectResumes ==
    /\ caller.cmd = "grep"
    /\ caller.pc = "connectToServer"
    /\ connectToServerReturns
    /\ caller' = IF wr.pc = "returned"
                 THEN [caller EXCEPT !.pc = "callListTools"]
                 ELSE grepCatch(wr.thrown, "unreachable")
    /\ UNCHANGED <<pureVars, envVars>>

\* Line 62.
GrepListTools ==
    /\ caller.cmd = "grep"
    /\ caller.pc = "callListTools"
    /\ listToolsCall
    /\ caller' = [caller EXCEPT !.pc = "listTools"]
    /\ UNCHANGED <<pureVars, envVars>>

\* Lines 62-77: the matching tools are pushed, or the error waits for the finally block.
GrepListToolsResumes ==
    /\ caller.cmd = "grep"
    /\ caller.pc = "listTools"
    /\ wr.kind = "list tools"
    /\ wr.pc \in {"returned", "thrown"}
    /\ caller' = IF wr.pc = "returned"
                 THEN [caller EXCEPT !.pc = "callClose",
                                     !.results = @ \o matched(caller.pattern,
                                                              caller.serverNames[caller.i],
                                                              wr.value.tools)]
                 ELSE [caller EXCEPT !.pc = "callClose", !.pending = wr.thrown]
    /\ wr' = IdleFrame
    /\ UNCHANGED <<pureVars, envVars, cl>>

\* Line 77.
GrepClose ==
    /\ caller.cmd = "grep"
    /\ caller.pc = "callClose"
    /\ closeCall
    /\ caller' = [caller EXCEPT !.pc = "close"]
    /\ UNCHANGED <<pureVars, envVars, wr>>

\* Lines 77-79: close() settles; an error of close, or else the pending error of
\* listTools, lands in the catch block.
GrepCloseResumes ==
    /\ caller.cmd = "grep"
    /\ caller.pc = "close"
    /\ closeSettles
    /\ \E outcome \in CloseOutcomes :
          caller' = IF ~outcome.ok THEN grepCatch(outcome.error, "closeFailed")
                    ELSE IF caller.pending # NoError THEN grepCatch(caller.pending, "listFailed")
                    ELSE [caller EXCEPT !.pc = "loop", !.i = @ + 1, !.fate = Append(@, "served")]
    /\ UNCHANGED <<pureVars, envVars, wr>>

\* Lines 89-104: the loop is over and the results are printed.
GrepOutput ==
    /\ caller.cmd = "grep"
    /\ caller.pc = "loop"
    /\ caller.i > Len(caller.serverNames)
    /\ caller' = [caller EXCEPT !.pc = "done"]
    /\ UNCHANGED <<pureVars, envVars, wr, cl>>

GrepNext ==
    \/ GrepConnect \/ GrepConnectResumes \/ GrepListTools \/ GrepListToolsResumes
    \/ GrepClose \/ GrepCloseResumes \/ GrepOutput

(***************************************************************************)
(* commands/info.ts: infoCommand (40-114), after loadConfig                *)
(*   pc: exited    process.exit(exitCode) ended the process                *)
(*       returned  infoCommand returned                                    *)
(*       raised    infoCommand raised caller.raised                        *)
(***************************************************************************)

serverConnectionError(serverName, cause) ==
    CliError(ErrText.serverConnection, ErrText.failedToConnect \o ErrText.quote \o serverName \o ErrText.quote, cause)

toolNotFoundError(toolName, serverName, availableTools) ==
    CliError(ErrText.toolNotFound,
             ErrText.tool \o ErrText.quote \o Text(toolName) \o ErrText.quote \o ErrText.notFoundInServer
                 \o ErrText.quote \o serverName \o ErrText.quote,
             ErrText.availableTools \o JoinComma([k \in 1..Len(availableTools) |-> Text(availableTools[k])]))

\* Lines 29-35, on the target already split at "/": the server name, and the tool
\* name (<<>>: undefined) when there is a second part.
parseTarget(parts) ==
    IF Len(parts) = 1
    THEN [server |-> parts[1], tool |-> <<>>]
    ELSE [server |-> parts[1], tool |-> <<parts[2]>>]

\* info <server>, info <server>/<tool> and info <server>/ for a configured name, a
\* name that is not configured, and a name of Object.prototype.
Targets ==
    LET TargetServers == {Name.a, Name.b, Name.toString} IN
    {<<n>> : n \in TargetServers} \cup
    {<<n, t>> : n \in TargetServers, t \in {"read", "absent", ""}}

InfoCaller ==
    [cmd |-> "info", pc |-> "start", target |-> <<Name.a>>, serverName |-> <<>>, toolName |-> <<>>,
     serverConfig |-> Desc.stdio, pending |-> NoError, raised |-> NoError, exitCode |-> "none",
     stderr |-> <<>>, stdout |-> NoValue]

\* Lines 50-58.
InfoLookup ==
    /\ caller.cmd = "info"
    /\ caller.pc = "start"
    /\ LET parsed == parseTarget(caller.target)
           serverConfig == getServerConfig(mcpServers, parsed.server)
       IN  caller' = IF serverConfig.ok
                     THEN [caller EXCEPT !.pc = "callConnect", !.serverName = parsed.server,
                                         !.toolName = parsed.tool,
                                         !.serverConfig = serverConfig.value]
                     ELSE [caller EXCEPT !.pc = "exited", !.serverName = parsed.server,
                                         !.toolName = parsed.tool,
                                         !.stderr = Append(@, serverConfig.error.message),
                                         !.exitCode = "CLIENT_ERROR"]
    /\ UNCHANGED <<pureVars, envVars, wr, cl>>

\* Line 64.
InfoConnect ==
    /\ caller.cmd = "info"
    /\ caller.pc = "callConnect"
    /\ connectToServerCall(caller.serverName, caller.serverConfig)
    /\ caller' = [caller EXCEPT !.pc = "connectToServer"]
    /\ UNCHANGED <<pureVars, envVars>>

\* Lines 64-70.
InfoConnectResumes ==
    /\ caller.cmd = "info"
    /\ caller.pc = "connectToServer"
    /\ connectToServerReturns
    /\ caller' = IF wr.pc = "returned"
                 THEN [caller EXCEPT !.pc = "callListTools"]
                 ELSE [caller EXCEPT !.pc = "exited",
                                     !.stderr = Append(@, formatCliError(
                                         serverConnectionError(caller.serverName, wr.thrown.message))),
                                     !.exitCode = "NETWORK_ERROR"]
    /\ UNCHANGED <<pureVars, envVars>>

\* Lines 75 and 95.
InfoListTools ==
    /\ caller.cmd = "info"
    /\ caller.pc = "callListTools"
    /\ listToolsCall
    /\ caller' = [caller EXCEPT !.pc = "listTools"]
    /\ UNCHANGED <<pureVars, envVars>>

\* Lines 73-110: listTools returns or raises. process.exit (line 81) ends the process
\* where it is called: the finally block of line 111 does not run.
InfoListToolsResumes ==
    /\ caller.cmd = "info"
    /\ caller.pc = "listTools"
    /\ wr.kind = "list tools"
    /\ wr.pc \in {"returned", "thrown"}
    /\ caller' =
          IF wr.pc = "thrown"
          THEN [caller EXCEPT !.pc = "callClose", !.pending = wr.thrown]
          ELSE LET tools == wr.value.tools IN
               IF caller.toolName # <<>> /\ caller.toolName[1] # ""
               THEN LET tool == find(tools, caller.toolName[1]) IN
                    IF tool = Undefined
                    THEN LET availableTools == [k \in 1..Len(tools) |-> tools[k].name]
                         IN  [caller EXCEPT !.pc = "exited",
                                            !.stderr = Append(@, formatCliError(toolNotFoundError(
                                                caller.toolName[1], caller.serverName, availableTools))),
                                            !.exitCode = "CLIENT_ERROR"]
                    ELSE [caller EXCEPT !.pc = "callClose",
                                        !.stdout = [tag |-> "toolSchema", tool |-> tool.tool]]
               ELSE [caller EXCEPT !.pc = "callClose",
                                   !.stdout = [tag |-> "serverDetails", tools |-> tools]]
    /\ wr' = IdleFrame
    /\ UNCHANGED <<pureVars, envVars, cl>>

\* Line 112.
InfoClose ==
    /\ caller.cmd = "info"
    /\ caller.pc = "callClose"
    /\ closeCall
    /\ caller' = [caller EXCEPT !.pc = "close"]
    /\ UNCHANGED <<pureVars, envVars, wr>>

\* Lines 112-114: close() settles; infoCommand raises the error of close, or else the
\* pending error of listTools, or returns.
InfoCloseResumes ==
    /\ caller.cmd = "info"
    /\ caller.pc = "close"
    /\ closeSettles
    /\ \E outcome \in CloseOutcomes :
          caller' = IF ~outcome.ok THEN [caller EXCEPT !.pc = "raised", !.raised = outcome.error]
                    ELSE IF caller.pending # NoError
                    THEN [caller EXCEPT !.pc = "raised", !.raised = caller.pending]
                    ELSE [caller EXCEPT !.pc = "returned"]
    /\ UNCHANGED <<pureVars, envVars, wr>>

InfoNext ==
    \/ InfoLookup \/ InfoConnect \/ InfoConnectResumes \/ InfoListTools
    \/ InfoListToolsResumes \/ InfoClose \/ InfoCloseResumes

(***************************************************************************)
(* One run of a command: list, grep <pattern> or info <target>             *)
(***************************************************************************)
\* Files whose servers are among a plain name and an array-index name.
CommandConfigFiles ==
    LET CommandServerNames == {Name.a, Name.n9} IN
    {file \in ConfigFiles : \A k \in 1..Len(file) : file[k].name \in CommandServerNames}

CommandsInit ==
    /\ call = NoCall
    /\ ret = NoRet
    /\ MCP_DEBUG \in {<<>>, <<"1">>}
    /\ processEnv = AmbientEnv
    /\ mcpServers \in CommandConfigFiles
    /\ wr = IdleFrame
    /\ cl = IdleClient
    /\ caller \in {[ListCaller EXCEPT !.serverNames = listServerNames(mcpServers)]}
                   \cup {[GrepCaller EXCEPT !.serverNames = listServerNames(mcpServers),
                                           !.pattern = pattern] : pattern \in Patterns}
                   \cup {[InfoCaller EXCEPT !.target = target] : target \in Targets}

CommandsNext ==
    \/ ConnectSettles \/ ListToolsSettles \/ withRetryWake
    \/ ListConnect \/ ListConnectResumes \/ ListListTools \/ ListListToolsResumes
    \/ ListClose \/ ListCloseResumes \/ ListOutput
    \/ GrepNext
    \/ InfoNext

SpecCommands == CommandsInit /\ [][CommandsNext]_vars

\* C15: in list and grep a session that connectToServer returned is closed once, after
\* its listTools has finished and before the next server is connected (or the command
\* ends), and no close is issued when connectToServer failed.
C15_SessionClosedOnce ==
    caller.cmd \in {"list", "grep"} =>
        /\ cl.releases <= 1
        /\ cl.releases = 1 => (cl.session # 0 /\ cl.listToolsOps = 1 /\ wr.pc = "idle")
        /\ cl.session = 0 => cl.releases = 0
        /\ (caller.pc \in {"loop", "done"} /\ cl.session # 0) => (cl.releases = 1 /\ ~cl.closing)

C15_Witness ==
    /\ caller.cmd = "grep"
    /\ caller.pc = "done"
    /\ caller.fate = <<"unreachable", "listFailed">>
    /\ cl.session # 0
    /\ cl.releases = 1

\* C16: when the info command ends after connectToServer succeeded, the session has
\* been closed exactly once, whether the tool was found, was not found, or listTools
\* failed.
C16_InfoClosesOnEveryPath ==
    (caller.cmd = "info" /\ caller.pc \in {"exited", "returned", "raised"} /\ cl.session # 0) =>
        cl.releases = 1

\* C17: while an operation wrapped by withRetry is in flight (an attempt or a backoff
\* suspension) its caller waits for it and no close is in flight, and while a close is
\* in flight no other operation is.
C17_OperationsSequential ==
    /\ wr.pc # "idle" => (caller.pc \in {"connectToServer", "listTools"} /\ ~cl.closing)
    /\ cl.closing => (caller.pc = "close" /\ wr.pc = "idle")
    /\ wr.kind = "list tools" => cl.sess = "Open"

C17_Witness ==
    /\ caller.cmd = "info"
    /\ caller.pc = "listTools"
    /\ wr.kind = "list tools"
    /\ wr.pc = "sleeping"
    /\ wr.fnCalls = 3
    /\ ~cl.closing

\* C18: the info command given a server name the configuration does not hold ends
\* with a client error that reports the name and all the known server names, and makes
\* no connection attempt for it.
C18_UnknownServerIsFatal ==
    (/\ caller.cmd = "info"
     /\ caller.pc # "start"
     /\ ~HasServer(mcpServers, parseTarget(caller.target).server)) =>
        /\ caller.pc = "exited"
        /\ caller.exitCode = "CLIENT_ERROR"
        /\ Len(caller.stderr) = 1
        /\ includes(caller.stderr[1], ErrText.quote \o parseTarget(caller.target).server \o ErrText.quote)
        /\ includes(caller.stderr[1], ErrText.available \o JoinComma(ObjectKeys(mcpServers)))
        /\ wr = IdleFrame
        /\ cl = IdleClient

\* C27: when grep is done every configured server was handled; a server whose
\* lookup, connect or listTools failed has no result, a server that was served has
\* all its matching tools, and the results follow the order in which the servers
\* are written in the configuration.
C27_GrepIsolatesFailures ==
    (caller.cmd = "grep" /\ caller.pc = "done") =>
        LET position(name) == CHOOSE k \in 1..Len(mcpServers) : mcpServers[k].name = name
            resultsOf(name) == SelectSeq(caller.results, LAMBDA r : r.server = name)
        IN  /\ Len(caller.fate) = Len(mcpServers)
            /\ \A k \in 1..Len(mcpServers) :
                  \E i \in 1..Len(caller.serverNames) :
                      caller.serverNames[i] = mcpServers[k].name
            /\ \A k \in 1..Len(caller.fate) :
                  /\ caller.fate[k] \in {"notFound", "unreachable", "listFailed"} =>
                        resultsOf(caller.serverNames[k]) = <<>>
                  /\ caller.fate[k] = "served" =>
                        resultsOf(caller.serverNames[k]) =
                            matched(caller.pattern, caller.serverNames[k],
                                    RealTools(caller.serverNames[k]))
            /\ \A i, j \in 1..Len(caller.results) :
                  i < j => position(caller.results[i].server)
                              <= position(caller.results[j].server)

\* C29: when list is done its result holds one entry per configured server, in the
\* order of the configuration, whatever connect, listTools and close did.
C29_OneEntryPerServer ==
    (caller.cmd = "list" /\ caller.pc = "done") =>
        /\ Len(caller.servers) = Len(mcpServers)
        /\ \A k \in 1..Len(caller.servers) :
              k <= Len(mcpServers) => caller.servers[k].name = mcpServers[k].name

====
